---- MODULE Spec2Model ----
(***************************************************************************)
(* Model of the P2P escrow contract EscrowWithExpiry                       *)
(* (src/contracts/EscrowWithExpiry.sol) over two ERC20 ledgers.            *)
(*                                                                         *)
(* Every external function of the contract is one action.  A handler is    *)
(* written as an operator that threads the contract state through the      *)
(* statements of the Solidity body in source order and stops at the first  *)
(* failing require or transfer; the action then commits the result the way *)
(* the EVM does: all of it when the call returns, none of it when the call *)
(* reverts.                                                                *)
(***************************************************************************)
EXTENDS Integers, Naturals, Sequences, FiniteSets, TLC

(***************************************************************************)
(* Bounds of the model.                                                    *)
(***************************************************************************)
MaxOffers == 1          \* createOffer is cut off after this many offers
MaxAmount == 2          \* amounts, prices and allowances range over 0..MaxAmount
MaxClockSteps == 3      \* the clock visits the first MaxClockSteps instants below

(***************************************************************************)
(* Program constants.                                                      *)
(***************************************************************************)
DEFAULT_EXPIRY_TIME == 900
MAX_OFFERS_PER_DAY == 50
OFFER_COOLDOWN == 10
ONE_DAY == 86400
MIN_EXPIRY == 60
MAX_EXPIRY == 86400

(***************************************************************************)
(* Identities.  Zero is address(0); Escrow is address(this).               *)
(***************************************************************************)
Zero == "zero"
Escrow == "escrow"
Owner == "owner"
Accounts == {"owner", "alice", "bob"}
Holders == Accounts \cup {Escrow}
Tokens == {"SWAT", "BUSD"}
QuoteAsset == "BUSD"
OfferIds == 0..MaxOffers

(***************************************************************************)
(* block.timestamp.  The chain starts well past one day, and the clock     *)
(* jumps between the instants at which a guard of the contract changes:    *)
(* the cooldown after the first offer, and the expiry of an offer made at  *)
(* the start or right after the cooldown.                                  *)
(***************************************************************************)
StartTime == 100000
ClockInstants ==
    << StartTime,
       StartTime + DEFAULT_EXPIRY_TIME,
       StartTime + DEFAULT_EXPIRY_TIME + 1,
       StartTime + OFFER_COOLDOWN,
       StartTime + DEFAULT_EXPIRY_TIME + OFFER_COOLDOWN + 1,
       StartTime + DEFAULT_EXPIRY_TIME + ONE_DAY,
       StartTime + DEFAULT_EXPIRY_TIME + ONE_DAY + 1 >>
Min(a, b) == IF a <= b THEN a ELSE b
ClockValues == { ClockInstants[i] : i \in 1..Min(MaxClockSteps, Len(ClockInstants)) }

VARIABLES
    now,              \* block.timestamp
    offers,           \* _offers
    offerIdCounter,   \* _offerIdCounter
    offerExpiryTime,  \* offerExpiryTime
    lastOfferTime,    \* _lastOfferTime
    dailyOfferCount,  \* _dailyOfferCount
    paused,           \* Pausable._paused
    bal,              \* ERC20 balances, per token
    allowance,        \* ERC20 allowances granted to the escrow, per token
    status,           \* per offer, the lifecycle event emitted last
    paidOut,          \* per offer, number of transfers out of custody made for it
    withdrawn,        \* per token, total moved out by emergencyWithdraw
    last,             \* the call executed last and its outcome
    race              \* accept/cancel transactions issued together, not yet mined

(***************************************************************************)
(* The mock exchange deployed next to the escrow: MockFactory, the one     *)
(* MockPair it can create for the two tokens, and MockRouter in front of   *)
(* them (src/contracts/mocks/MockFactory.sol, src/unnamed/part_001).       *)
(***************************************************************************)
VARIABLES
    getPair,          \* MockFactory.getPair
    allPairs,         \* MockFactory.allPairs
    token0,           \* MockPair.token0
    token1,           \* MockPair.token1
    reserve0,         \* MockPair.reserve0
    reserve1,         \* MockPair.reserve1
    totalSupply,      \* MockPair (ERC20) totalSupply of liquidity tokens
    balanceOf,        \* MockPair (ERC20) balances of liquidity tokens
    tokenBalance,     \* balances of the two traded tokens, per token
    routerAllowance,  \* allowances granted to the router, per asset
    ret,              \* what the call executed last returned
    steps,            \* number of calls that have changed factory, pair or ledgers
    args              \* inputs drawn for the pure function under evaluation

poolVars == << getPair, allPairs, token0, token1, reserve0, reserve1, totalSupply,
               balanceOf, tokenBalance, routerAllowance, ret, steps,
               args >>

(***************************************************************************)
(* The token itself, SWATToken (src/contracts/SWATToken.sol): an ERC20     *)
(* that its owner mints up to MAX_SUPPLY and can pause.  MAX_SUPPLY is     *)
(* 100_000_000 * 10**18 in the contract; the model counts in units of a    *)
(* quarter of it.                                                          *)
(***************************************************************************)
VARIABLE
    swat              \* SWATToken: ERC20 totalSupply and balanceOf, Pausable paused

tokenVars == << swat >>

MAX_SUPPLY == 4

SWATTokenDeployed ==
    [ totalSupply |-> 0, balanceOf |-> [a \in Accounts |-> 0], paused |-> FALSE ]

(***************************************************************************)
(* The escrow call that is being executed: its handler has passed its      *)
(* checks and written the offer, and the token transfers it makes are      *)
(* under way.  While a call is in progress ReentrancyGuard's status is     *)
(* ENTERED.                                                                *)
(***************************************************************************)
VARIABLE
    frame             \* the call in progress, its transfers left, the state to roll back to

vars == << now, offers, offerIdCounter, offerExpiryTime, lastOfferTime,
           dailyOfferCount, paused, bal, allowance, status, paidOut,
           withdrawn, last, race, poolVars, tokenVars, frame >>

(***************************************************************************)
(* Identities of the exchange.  Pair is the address of the pair contract,  *)
(* Locked is address(1), LP names the pair's own ERC20 as an asset.        *)
(***************************************************************************)
MINIMUM_LIQUIDITY == 1000
Pair == "pair"
PairTokens == Tokens \cup {"WBNB"}   \* addresses a pair can be created for
Locked == "address1"
LP == "LP"
Providers == {"alice", "bob"}
TokenHolders == Providers \cup {Pair}
ShareHolders == Providers \cup {Pair, Locked}
Unlimited == 0 - 1      \* type(uint256).max, the allowance that is never spent
NoReturn == << >>

(***************************************************************************)
(* The exchange right after deployment of factory and router: no pair,     *)
(* every provider holding minted of each token and having approved the     *)
(* router for approved of it.                                              *)
(***************************************************************************)
PoolDeployed(minted, approved) ==
    /\ getPair = [a \in PairTokens \cup {Zero} |-> [b \in PairTokens \cup {Zero} |-> Zero]]
    /\ allPairs = << >>
    /\ token0 = Zero
    /\ token1 = Zero
    /\ reserve0 = 0
    /\ reserve1 = 0
    /\ totalSupply = 0
    /\ balanceOf = [h \in ShareHolders |-> 0]
    /\ tokenBalance = [t \in Tokens |->
                         [h \in TokenHolders |-> IF h \in Providers THEN minted ELSE 0]]
    /\ routerAllowance = [a \in Tokens \cup {LP} |->
                         [h \in Providers |-> IF a \in Tokens THEN approved ELSE 0]]
    /\ ret = NoReturn
    /\ steps = 0

(***************************************************************************)
(* The zero-initialised Offer struct a Solidity mapping returns for a key  *)
(* never written.                                                          *)
(***************************************************************************)
EmptyOffer ==
    [ id |-> 0, seller |-> Zero, buyer |-> Zero, tokenAddress |-> Zero,
      amount |-> 0, priceInBUSD |-> 0, active |-> FALSE,
      createdAt |-> 0, expiresAt |-> 0 ]

(***************************************************************************)
(* The contract and ledger state as one value, as a handler sees it.       *)
(***************************************************************************)
Cur ==
    [ now |-> now, offers |-> offers, offerIdCounter |-> offerIdCounter,
      offerExpiryTime |-> offerExpiryTime, lastOfferTime |-> lastOfferTime,
      dailyOfferCount |-> dailyOfferCount, paused |-> paused,
      bal |-> bal, allowance |-> allowance, status |-> status,
      paidOut |-> paidOut, withdrawn |-> withdrawn ]

Ok(s) == [ ok |-> TRUE, err |-> "ok", st |-> s ]
Revert(s, msg) == [ ok |-> FALSE, err |-> msg, st |-> s ]

(***************************************************************************)
(* ERC20._update: move value, failing on an insufficient balance.          *)
(***************************************************************************)
tokenTransfer(s, token, from, to, value) ==
    IF s.bal[token][from] < value
    THEN Revert(s, "ERC20InsufficientBalance")
    ELSE Ok([s EXCEPT !.bal[token] =
                [[@ EXCEPT ![from] = @ - value] EXCEPT ![to] = @ + value]])

(***************************************************************************)
(* SafeERC20.safeTransfer from the escrow: reverts when the token does.    *)
(***************************************************************************)
safeTransfer(s, token, to, value) ==
    tokenTransfer(s, token, Escrow, to, value)

(***************************************************************************)
(* A transferFrom whose failure is not turned into a revert.               *)
(***************************************************************************)
safeTransferFrom_unchecked(s, token, from, to, value) ==
    IF s.allowance[token][from] < value \/ s.bal[token][from] < value
    THEN Ok(s)
    ELSE tokenTransfer([s EXCEPT !.allowance[token][from] = @ - value],
                       token, from, to, value)

(***************************************************************************)
(* SafeERC20.safeTransferFrom with the escrow as spender: the allowance is *)
(* spent first, then the balance is moved; either failure reverts.         *)
(***************************************************************************)
safeTransferFrom(s, token, from, to, value) ==
    IF s.allowance[token][from] < value
    THEN Revert(s, "ERC20InsufficientAllowance")
    ELSE tokenTransfer([s EXCEPT !.allowance[token][from] = @ - value],
                       token, from, to, value)

(***************************************************************************)
(* A failed call whose writes made before the failure stay.                *)
(***************************************************************************)
Commit_keepsWrites(pre, r) == r.st

(***************************************************************************)
(* EVM transaction semantics: a reverted call leaves the pre-state.        *)
(***************************************************************************)
Commit(pre, r) == IF r.ok THEN r.st ELSE pre

(***************************************************************************)
(* createOffer that stores the offer without taking the tokens.            *)
(***************************************************************************)
createOffer_noEscrow(s, sender, tokenAddress, amount, priceInBUSD, buyer) ==
    IF s.paused THEN Revert(s, "EnforcedPause")
    ELSE IF tokenAddress = Zero THEN Revert(s, "Invalid token address")
    ELSE IF ~(amount > 0) THEN Revert(s, "Amount must be > 0")
    ELSE IF ~(priceInBUSD > 0) THEN Revert(s, "Price must be > 0")
    ELSE IF buyer = Zero THEN Revert(s, "Invalid buyer address")
    ELSE IF buyer = sender THEN Revert(s, "Buyer cannot be seller")
    ELSE IF ~(s.now >= s.lastOfferTime[sender] + OFFER_COOLDOWN)
         THEN Revert(s, "Cooldown period active")
    ELSE
      LET s1 == IF s.now >= s.lastOfferTime[sender] + ONE_DAY
                THEN [s EXCEPT !.dailyOfferCount[sender] = 0]
                ELSE s
      IN
      IF ~(s1.dailyOfferCount[sender] < MAX_OFFERS_PER_DAY)
      THEN Revert(s1, "Daily offer limit reached")
      ELSE
        LET s2 == [s1 EXCEPT !.lastOfferTime[sender] = s.now,
                             !.dailyOfferCount[sender] = @ + 1]
            offerId == s2.offerIdCounter
            expiresAt == s.now + s.offerExpiryTime
        IN Ok([s2 EXCEPT
                 !.offerIdCounter = @ + 1,
                 !.offers[offerId] =
                     [ id |-> offerId, seller |-> sender, buyer |-> buyer,
                       tokenAddress |-> tokenAddress, amount |-> amount,
                       priceInBUSD |-> priceInBUSD, active |-> TRUE,
                       createdAt |-> s.now, expiresAt |-> expiresAt ],
                 !.status[offerId] = "Active"])

(***************************************************************************)
(* createOffer without the cooldown require.                               *)
(***************************************************************************)
createOffer_noCooldown(s, sender, tokenAddress, amount, priceInBUSD, buyer) ==
    IF s.paused THEN Revert(s, "EnforcedPause")
    ELSE IF tokenAddress = Zero THEN Revert(s, "Invalid token address")
    ELSE IF ~(amount > 0) THEN Revert(s, "Amount must be > 0")
    ELSE IF ~(priceInBUSD > 0) THEN Revert(s, "Price must be > 0")
    ELSE IF buyer = Zero THEN Revert(s, "Invalid buyer address")
    ELSE IF buyer = sender THEN Revert(s, "Buyer cannot be seller")
    ELSE
      LET s1 == IF s.now >= s.lastOfferTime[sender] + ONE_DAY
                THEN [s EXCEPT !.dailyOfferCount[sender] = 0]
                ELSE s
      IN
      IF ~(s1.dailyOfferCount[sender] < MAX_OFFERS_PER_DAY)
      THEN Revert(s1, "Daily offer limit reached")
      ELSE
        LET s2 == [s1 EXCEPT !.lastOfferTime[sender] = s.now,
                             !.dailyOfferCount[sender] = @ + 1]
            t  == safeTransferFrom(s2, tokenAddress, sender, Escrow, amount)
        IN
        IF ~t.ok THEN t
        ELSE
          LET offerId == t.st.offerIdCounter
              expiresAt == s.now + s.offerExpiryTime
          IN Ok([t.st EXCEPT
                   !.offerIdCounter = @ + 1,
                   !.offers[offerId] =
                       [ id |-> offerId, seller |-> sender, buyer |-> buyer,
                         tokenAddress |-> tokenAddress, amount |-> amount,
                         priceInBUSD |-> priceInBUSD, active |-> TRUE,
                         createdAt |-> s.now, expiresAt |-> expiresAt ],
                   !.status[offerId] = "Active"])

(***************************************************************************)
(* createOffer whose daily limit admits one offer more.                    *)
(***************************************************************************)
createOffer_limitInclusive(s, sender, tokenAddress, amount, priceInBUSD, buyer) ==
    IF s.paused THEN Revert(s, "EnforcedPause")
    ELSE IF tokenAddress = Zero THEN Revert(s, "Invalid token address")
    ELSE IF ~(amount > 0) THEN Revert(s, "Amount must be > 0")
    ELSE IF ~(priceInBUSD > 0) THEN Revert(s, "Price must be > 0")
    ELSE IF buyer = Zero THEN Revert(s, "Invalid buyer address")
    ELSE IF buyer = sender THEN Revert(s, "Buyer cannot be seller")
    ELSE IF ~(s.now >= s.lastOfferTime[sender] + OFFER_COOLDOWN)
         THEN Revert(s, "Cooldown period active")
    ELSE
      LET s1 == IF s.now >= s.lastOfferTime[sender] + ONE_DAY
                THEN [s EXCEPT !.dailyOfferCount[sender] = 0]
                ELSE s
      IN
      IF ~(s1.dailyOfferCount[sender] <= MAX_OFFERS_PER_DAY)
      THEN Revert(s1, "Daily offer limit reached")
      ELSE
        LET s2 == [s1 EXCEPT !.lastOfferTime[sender] = s.now,
                             !.dailyOfferCount[sender] = @ + 1]
            t  == safeTransferFrom(s2, tokenAddress, sender, Escrow, amount)
        IN
        IF ~t.ok THEN t
        ELSE
          LET offerId == t.st.offerIdCounter
              expiresAt == s.now + s.offerExpiryTime
          IN Ok([t.st EXCEPT
                   !.offerIdCounter = @ + 1,
                   !.offers[offerId] =
                       [ id |-> offerId, seller |-> sender, buyer |-> buyer,
                         tokenAddress |-> tokenAddress, amount |-> amount,
                         priceInBUSD |-> priceInBUSD, active |-> TRUE,
                         createdAt |-> s.now, expiresAt |-> expiresAt ],
                   !.status[offerId] = "Active"])

(***************************************************************************)
(* createOffer that does not advance the id counter.                       *)
(***************************************************************************)
createOffer_keepsCounter(s, sender, tokenAddress, amount, priceInBUSD, buyer) ==
    IF s.paused THEN Revert(s, "EnforcedPause")
    ELSE IF tokenAddress = Zero THEN Revert(s, "Invalid token address")
    ELSE IF ~(amount > 0) THEN Revert(s, "Amount must be > 0")
    ELSE IF ~(priceInBUSD > 0) THEN Revert(s, "Price must be > 0")
    ELSE IF buyer = Zero THEN Revert(s, "Invalid buyer address")
    ELSE IF buyer = sender THEN Revert(s, "Buyer cannot be seller")
    ELSE IF ~(s.now >= s.lastOfferTime[sender] + OFFER_COOLDOWN)
         THEN Revert(s, "Cooldown period active")
    ELSE
      LET s1 == IF s.now >= s.lastOfferTime[sender] + ONE_DAY
                THEN [s EXCEPT !.dailyOfferCount[sender] = 0]
                ELSE s
      IN
      IF ~(s1.dailyOfferCount[sender] < MAX_OFFERS_PER_DAY)
      THEN Revert(s1, "Daily offer limit reached")
      ELSE
        LET s2 == [s1 EXCEPT !.lastOfferTime[sender] = s.now,
                             !.dailyOfferCount[sender] = @ + 1]
            t  == safeTransferFrom(s2, tokenAddress, sender, Escrow, amount)
        IN
        IF ~t.ok THEN t
        ELSE
          LET offerId == t.st.offerIdCounter
              expiresAt == s.now + s.offerExpiryTime
          IN Ok([t.st EXCEPT
                   !.offers[offerId] =
                       [ id |-> offerId, seller |-> sender, buyer |-> buyer,
                         tokenAddress |-> tokenAddress, amount |-> amount,
                         priceInBUSD |-> priceInBUSD, active |-> TRUE,
                         createdAt |-> s.now, expiresAt |-> expiresAt ],
                   !.status[offerId] = "Active"])

(***************************************************************************)
(* createOffer without the require that the buyer is not the seller.       *)
(***************************************************************************)
createOffer_noBuyerCheck(s, sender, tokenAddress, amount, priceInBUSD, buyer) ==
    IF s.paused THEN Revert(s, "EnforcedPause")
    ELSE IF tokenAddress = Zero THEN Revert(s, "Invalid token address")
    ELSE IF ~(amount > 0) THEN Revert(s, "Amount must be > 0")
    ELSE IF ~(priceInBUSD > 0) THEN Revert(s, "Price must be > 0")
    ELSE IF buyer = Zero THEN Revert(s, "Invalid buyer address")
    ELSE IF ~(s.now >= s.lastOfferTime[sender] + OFFER_COOLDOWN)
         THEN Revert(s, "Cooldown period active")
    ELSE
      LET s1 == IF s.now >= s.lastOfferTime[sender] + ONE_DAY
                THEN [s EXCEPT !.dailyOfferCount[sender] = 0]
                ELSE s
      IN
      IF ~(s1.dailyOfferCount[sender] < MAX_OFFERS_PER_DAY)
      THEN Revert(s1, "Daily offer limit reached")
      ELSE
        LET s2 == [s1 EXCEPT !.lastOfferTime[sender] = s.now,
                             !.dailyOfferCount[sender] = @ + 1]
            t  == safeTransferFrom(s2, tokenAddress, sender, Escrow, amount)
        IN
        IF ~t.ok THEN t
        ELSE
          LET offerId == t.st.offerIdCounter
              expiresAt == s.now + s.offerExpiryTime
          IN Ok([t.st EXCEPT
                   !.offerIdCounter = @ + 1,
                   !.offers[offerId] =
                       [ id |-> offerId, seller |-> sender, buyer |-> buyer,
                         tokenAddress |-> tokenAddress, amount |-> amount,
                         priceInBUSD |-> priceInBUSD, active |-> TRUE,
                         createdAt |-> s.now, expiresAt |-> expiresAt ],
                   !.status[offerId] = "Active"])

(***************************************************************************)
(* createOffer: validation, rate limiting, escrow of the tokens, storage   *)
(* of the offer.  The rate-limit fields are written before the transfer.   *)
(***************************************************************************)
createOffer(s, sender, tokenAddress, amount, priceInBUSD, buyer) ==
    IF s.paused THEN Revert(s, "EnforcedPause")
    ELSE IF tokenAddress = Zero THEN Revert(s, "Invalid token address")
    ELSE IF ~(amount > 0) THEN Revert(s, "Amount must be > 0")
    ELSE IF ~(priceInBUSD > 0) THEN Revert(s, "Price must be > 0")
    ELSE IF buyer = Zero THEN Revert(s, "Invalid buyer address")
    ELSE IF buyer = sender THEN Revert(s, "Buyer cannot be seller")
    ELSE IF ~(s.now >= s.lastOfferTime[sender] + OFFER_COOLDOWN)
         THEN Revert(s, "Cooldown period active")
    ELSE
      LET s1 == IF s.now >= s.lastOfferTime[sender] + ONE_DAY
                THEN [s EXCEPT !.dailyOfferCount[sender] = 0]
                ELSE s
      IN
      IF ~(s1.dailyOfferCount[sender] < MAX_OFFERS_PER_DAY)
      THEN Revert(s1, "Daily offer limit reached")
      ELSE
        LET s2 == [s1 EXCEPT !.lastOfferTime[sender] = s.now,
                             !.dailyOfferCount[sender] = @ + 1]
            t  == safeTransferFrom(s2, tokenAddress, sender, Escrow, amount)
        IN
        IF ~t.ok THEN t
        ELSE
          LET offerId == t.st.offerIdCounter
              expiresAt == s.now + s.offerExpiryTime
          IN Ok([t.st EXCEPT
                   !.offerIdCounter = @ + 1,
                   !.offers[offerId] =
                       [ id |-> offerId, seller |-> sender, buyer |-> buyer,
                         tokenAddress |-> tokenAddress, amount |-> amount,
                         priceInBUSD |-> priceInBUSD, active |-> TRUE,
                         createdAt |-> s.now, expiresAt |-> expiresAt ],
                   !.status[offerId] = "Active"])

(***************************************************************************)
(* acceptOffer that already refuses at now = expiresAt.                    *)
(***************************************************************************)
acceptOffer_expiresEarly(s, sender, offerId, busdAddress) ==
    LET offer == s.offers[offerId] IN
    IF s.paused THEN Revert(s, "EnforcedPause")
    ELSE IF ~offer.active THEN Revert(s, "Offer is not active")
    ELSE IF sender # offer.buyer THEN Revert(s, "Not the designated buyer")
    ELSE IF busdAddress = Zero THEN Revert(s, "Invalid BUSD address")
    ELSE IF ~(s.now < offer.expiresAt) THEN Revert(s, "Offer has expired")
    ELSE
      LET s1 == [s EXCEPT !.offers[offerId].active = FALSE]
          t1 == safeTransferFrom(s1, busdAddress, sender, offer.seller,
                                 offer.priceInBUSD)
      IN
      IF ~t1.ok THEN t1
      ELSE
        LET t2 == safeTransfer(t1.st, offer.tokenAddress, sender, offer.amount)
        IN
        IF ~t2.ok THEN t2
        ELSE Ok([t2.st EXCEPT !.status[offerId] = "Settled",
                              !.paidOut[offerId] = @ + 1])

(***************************************************************************)
(* acceptOffer without the check of the active flag.                       *)
(***************************************************************************)
acceptOffer_noActiveCheck(s, sender, offerId, busdAddress) ==
    LET offer == s.offers[offerId] IN
    IF s.paused THEN Revert(s, "EnforcedPause")
    ELSE IF sender # offer.buyer THEN Revert(s, "Not the designated buyer")
    ELSE IF busdAddress = Zero THEN Revert(s, "Invalid BUSD address")
    ELSE IF ~(s.now <= offer.expiresAt) THEN Revert(s, "Offer has expired")
    ELSE
      LET s1 == [s EXCEPT !.offers[offerId].active = FALSE]
          t1 == safeTransferFrom(s1, busdAddress, sender, offer.seller,
                                 offer.priceInBUSD)
      IN
      IF ~t1.ok THEN t1
      ELSE
        LET t2 == safeTransfer(t1.st, offer.tokenAddress, sender, offer.amount)
        IN
        IF ~t2.ok THEN t2
        ELSE Ok([t2.st EXCEPT !.status[offerId] = "Settled",
                              !.paidOut[offerId] = @ + 1])

(***************************************************************************)
(* acceptOffer: checks, then the flag is cleared, then the buyer pays the  *)
(* seller in the token the caller names, then custody pays the buyer.      *)
(***************************************************************************)
acceptOffer(s, sender, offerId, busdAddress) ==
    LET offer == s.offers[offerId] IN
    IF s.paused THEN Revert(s, "EnforcedPause")
    ELSE IF ~offer.active THEN Revert(s, "Offer is not active")
    ELSE IF sender # offer.buyer THEN Revert(s, "Not the designated buyer")
    ELSE IF busdAddress = Zero THEN Revert(s, "Invalid BUSD address")
    ELSE IF ~(s.now <= offer.expiresAt) THEN Revert(s, "Offer has expired")
    ELSE
      LET s1 == [s EXCEPT !.offers[offerId].active = FALSE]
          t1 == safeTransferFrom(s1, busdAddress, sender, offer.seller,
                                 offer.priceInBUSD)
      IN
      IF ~t1.ok THEN t1
      ELSE
        LET t2 == safeTransfer(t1.st, offer.tokenAddress, sender, offer.amount)
        IN
        IF ~t2.ok THEN t2
        ELSE Ok([t2.st EXCEPT !.status[offerId] = "Settled",
                              !.paidOut[offerId] = @ + 1])

(***************************************************************************)
(* cancelOffer without the check of the caller.                            *)
(***************************************************************************)
cancelOffer_anyCaller(s, sender, offerId) ==
    LET offer == s.offers[offerId] IN
    IF s.paused THEN Revert(s, "EnforcedPause")
    ELSE IF ~offer.active THEN Revert(s, "Offer is not active")
    ELSE
      LET s1 == [s EXCEPT !.offers[offerId].active = FALSE]
          t  == safeTransfer(s1, offer.tokenAddress, sender, offer.amount)
      IN
      IF ~t.ok THEN t
      ELSE Ok([t.st EXCEPT !.status[offerId] = "Cancelled",
                           !.paidOut[offerId] = @ + 1])

(***************************************************************************)
(* cancelOffer with the flag left set.                                     *)
(***************************************************************************)
cancelOffer_keepsActive(s, sender, offerId) ==
    LET offer == s.offers[offerId] IN
    IF s.paused THEN Revert(s, "EnforcedPause")
    ELSE IF ~offer.active THEN Revert(s, "Offer is not active")
    ELSE IF sender # offer.seller THEN Revert(s, "Not the seller")
    ELSE
      LET t == safeTransfer(s, offer.tokenAddress, sender, offer.amount)
      IN
      IF ~t.ok THEN t
      ELSE Ok([t.st EXCEPT !.status[offerId] = "Cancelled",
                           !.paidOut[offerId] = @ + 1])

(***************************************************************************)
(* cancelOffer that is closed once the offer has expired, as acceptOffer   *)
(* is.                                                                     *)
(***************************************************************************)
cancelOffer_untilExpiry(s, sender, offerId) ==
    LET offer == s.offers[offerId] IN
    IF s.paused THEN Revert(s, "EnforcedPause")
    ELSE IF ~offer.active THEN Revert(s, "Offer is not active")
    ELSE IF sender # offer.seller THEN Revert(s, "Not the seller")
    ELSE IF ~(s.now <= offer.expiresAt) THEN Revert(s, "Offer has expired")
    ELSE
      LET s1 == [s EXCEPT !.offers[offerId].active = FALSE]
          t  == safeTransfer(s1, offer.tokenAddress, sender, offer.amount)
      IN
      IF ~t.ok THEN t
      ELSE Ok([t.st EXCEPT !.status[offerId] = "Cancelled",
                           !.paidOut[offerId] = @ + 1])

(***************************************************************************)
(* cancelOffer: seller only; clears the flag, returns the tokens.          *)
(***************************************************************************)
cancelOffer(s, sender, offerId) ==
    LET offer == s.offers[offerId] IN
    IF s.paused THEN Revert(s, "EnforcedPause")
    ELSE IF ~offer.active THEN Revert(s, "Offer is not active")
    ELSE IF sender # offer.seller THEN Revert(s, "Not the seller")
    ELSE
      LET s1 == [s EXCEPT !.offers[offerId].active = FALSE]
          t  == safeTransfer(s1, offer.tokenAddress, sender, offer.amount)
      IN
      IF ~t.ok THEN t
      ELSE Ok([t.st EXCEPT !.status[offerId] = "Cancelled",
                           !.paidOut[offerId] = @ + 1])

(***************************************************************************)
(* reclaimExpired that pays the caller, as cancelOffer does.               *)
(***************************************************************************)
reclaimExpired_paysCaller(s, sender, offerId) ==
    LET offer == s.offers[offerId] IN
    IF ~offer.active THEN Revert(s, "Offer is not active")
    ELSE IF ~(s.now > offer.expiresAt) THEN Revert(s, "Offer has not expired yet")
    ELSE
      LET s1 == [s EXCEPT !.offers[offerId].active = FALSE]
          t  == safeTransfer(s1, offer.tokenAddress, sender, offer.amount)
      IN
      IF ~t.ok THEN t
      ELSE Ok([t.st EXCEPT !.status[offerId] = "Expired",
                           !.paidOut[offerId] = @ + 1])

(***************************************************************************)
(* reclaimExpired that is open from the deadline itself on.                *)
(***************************************************************************)
reclaimExpired_atDeadline(s, sender, offerId) ==
    LET offer == s.offers[offerId] IN
    IF ~offer.active THEN Revert(s, "Offer is not active")
    ELSE IF ~(s.now >= offer.expiresAt) THEN Revert(s, "Offer has not expired yet")
    ELSE
      LET s1 == [s EXCEPT !.offers[offerId].active = FALSE]
          t  == safeTransfer(s1, offer.tokenAddress, offer.seller, offer.amount)
      IN
      IF ~t.ok THEN t
      ELSE Ok([t.st EXCEPT !.status[offerId] = "Expired",
                           !.paidOut[offerId] = @ + 1])

(***************************************************************************)
(* reclaimExpired with the whenNotPaused modifier of the other handlers.   *)
(***************************************************************************)
reclaimExpired_whenNotPaused(s, sender, offerId) ==
    LET offer == s.offers[offerId] IN
    IF s.paused THEN Revert(s, "EnforcedPause")
    ELSE IF ~offer.active THEN Revert(s, "Offer is not active")
    ELSE IF ~(s.now > offer.expiresAt) THEN Revert(s, "Offer has not expired yet")
    ELSE
      LET s1 == [s EXCEPT !.offers[offerId].active = FALSE]
          t  == safeTransfer(s1, offer.tokenAddress, offer.seller, offer.amount)
      IN
      IF ~t.ok THEN t
      ELSE Ok([t.st EXCEPT !.status[offerId] = "Expired",
                           !.paidOut[offerId] = @ + 1])

(***************************************************************************)
(* reclaimExpired that only the seller may call.                           *)
(***************************************************************************)
reclaimExpired_sellerOnly(s, sender, offerId) ==
    LET offer == s.offers[offerId] IN
    IF ~offer.active THEN Revert(s, "Offer is not active")
    ELSE IF sender # offer.seller THEN Revert(s, "Not the seller")
    ELSE IF ~(s.now > offer.expiresAt) THEN Revert(s, "Offer has not expired yet")
    ELSE
      LET s1 == [s EXCEPT !.offers[offerId].active = FALSE]
          t  == safeTransfer(s1, offer.tokenAddress, offer.seller, offer.amount)
      IN
      IF ~t.ok THEN t
      ELSE Ok([t.st EXCEPT !.status[offerId] = "Expired",
                           !.paidOut[offerId] = @ + 1])

(***************************************************************************)
(* reclaimExpired: any caller, not guarded by pause; only past expiresAt;  *)
(* clears the flag, returns the tokens to the seller.                      *)
(***************************************************************************)
reclaimExpired(s, sender, offerId) ==
    LET offer == s.offers[offerId] IN
    IF ~offer.active THEN Revert(s, "Offer is not active")
    ELSE IF ~(s.now > offer.expiresAt) THEN Revert(s, "Offer has not expired yet")
    ELSE
      LET s1 == [s EXCEPT !.offers[offerId].active = FALSE]
          t  == safeTransfer(s1, offer.tokenAddress, offer.seller, offer.amount)
      IN
      IF ~t.ok THEN t
      ELSE Ok([t.st EXCEPT !.status[offerId] = "Expired",
                           !.paidOut[offerId] = @ + 1])

(***************************************************************************)
(* pause without onlyOwner.                                                *)
(***************************************************************************)
pause_anyCaller(s, sender) ==
    IF s.paused THEN Revert(s, "EnforcedPause")
    ELSE Ok([s EXCEPT !.paused = TRUE])

(***************************************************************************)
(* Owner functions.                                                        *)
(***************************************************************************)
pause(s, sender) ==
    IF sender # Owner THEN Revert(s, "OwnableUnauthorizedAccount")
    ELSE IF s.paused THEN Revert(s, "EnforcedPause")
    ELSE Ok([s EXCEPT !.paused = TRUE])

unpause(s, sender) ==
    IF sender # Owner THEN Revert(s, "OwnableUnauthorizedAccount")
    ELSE IF ~s.paused THEN Revert(s, "ExpectedPause")
    ELSE Ok([s EXCEPT !.paused = FALSE])

updateExpiryTime(s, sender, newExpiryTime) ==
    IF sender # Owner THEN Revert(s, "OwnableUnauthorizedAccount")
    ELSE IF ~(newExpiryTime >= MIN_EXPIRY) THEN Revert(s, "Expiry too short")
    ELSE IF ~(newExpiryTime <= MAX_EXPIRY) THEN Revert(s, "Expiry too long")
    ELSE Ok([s EXCEPT !.offerExpiryTime = newExpiryTime])

emergencyWithdraw_whenever(s, sender, token, amount, to) ==
    IF sender # Owner THEN Revert(s, "OwnableUnauthorizedAccount")
    ELSE IF to = Zero THEN Revert(s, "Invalid recipient")
    ELSE
      LET t == safeTransfer(s, token, to, amount) IN
      IF ~t.ok THEN t
      ELSE Ok([t.st EXCEPT !.withdrawn[token] = @ + amount])

emergencyWithdraw(s, sender, token, amount, to) ==
    IF sender # Owner THEN Revert(s, "OwnableUnauthorizedAccount")
    ELSE IF to = Zero THEN Revert(s, "Invalid recipient")
    ELSE IF ~s.paused THEN Revert(s, "Only when paused")
    ELSE
      LET t == safeTransfer(s, token, to, amount) IN
      IF ~t.ok THEN t
      ELSE Ok([t.st EXCEPT !.withdrawn[token] = @ + amount])

(***************************************************************************)
(* ERC20.approve(escrow, value) by a token holder.                         *)
(***************************************************************************)
approve(s, sender, token, value) ==
    Ok([s EXCEPT !.allowance[token][sender] = value])

(***************************************************************************)
(* Inputs the actions draw from.                                           *)
(***************************************************************************)
Sellers == {"alice"}
Traders == {"alice", "bob"}
InitialBalance == MaxAmount + 1
ApproveValue == InitialBalance + 1
\* the (holder, token) pairs the escrow ever pulls from: the seller's offered
\* token, and the buyer's payment in either token
ApproveArgs == { <<h, t>> \in Traders \X Tokens : h \in Sellers => t = "SWAT" }
AmountChoices == {0, MaxAmount, InitialBalance + 1}
PriceChoices == {0, MaxAmount + 1, InitialBalance + 1}
TokenArgs == Tokens \cup {Zero}
OfferedTokenArgs == {"SWAT", Zero}
BuyerArgs == Traders \cup {Zero}
RecipientArgs == {Owner, Zero}
ExpiryChoices == {MIN_EXPIRY - 1, DEFAULT_EXPIRY_TIME, MAX_EXPIRY + 1}

NoCall == [ op |-> "none", sender |-> Zero, id |-> 0, token |-> Zero,
            amount |-> 0, err |-> "ok" ]
NoFrame == [ op |-> "none" ]
NoRace == [ id |-> 0, busd |-> Zero, todo |-> {}, bal |-> << >>,
            acceptOffer |-> "none", cancelOffer |-> "none" ]
Call(op, sender, id, token, amount) ==
    [ op |-> op, sender |-> sender, id |-> id, token |-> token,
      amount |-> amount, err |-> "ok" ]

(***************************************************************************)
(* State after deployment: no offers, nothing escrowed, nobody has         *)
(* approved the escrow; alice and bob hold tokens minted to them.          *)
(***************************************************************************)
Init ==
    /\ now = StartTime
    /\ offers = [i \in OfferIds |-> EmptyOffer]
    /\ offerIdCounter = 0
    /\ offerExpiryTime = DEFAULT_EXPIRY_TIME
    /\ lastOfferTime = [a \in Accounts |-> 0]
    /\ dailyOfferCount = [a \in Accounts |-> 0]
    /\ paused = FALSE
    /\ bal = [t \in Tokens |->
                [h \in Holders |-> IF h \in Traders THEN InitialBalance ELSE 0]]
    /\ allowance = [t \in Tokens |-> [a \in Accounts |-> 0]]
    /\ status = [i \in OfferIds |-> "None"]
    /\ paidOut = [i \in OfferIds |-> 0]
    /\ withdrawn = [t \in Tokens |-> 0]
    /\ last = NoCall
    /\ race = NoRace
    /\ PoolDeployed(0, 0)
    /\ swat = SWATTokenDeployed
    /\ frame = NoFrame
    /\ args = << >>

(***************************************************************************)
(* One transaction: run the handler, commit or roll back, record the call. *)
(***************************************************************************)
Execute(r, call) ==
    LET c == Commit(Cur, r) IN
    /\ offers' = c.offers
    /\ offerIdCounter' = c.offerIdCounter
    /\ offerExpiryTime' = c.offerExpiryTime
    /\ lastOfferTime' = c.lastOfferTime
    /\ dailyOfferCount' = c.dailyOfferCount
    /\ paused' = c.paused
    /\ bal' = c.bal
    /\ allowance' = c.allowance
    /\ status' = c.status
    /\ paidOut' = c.paidOut
    /\ withdrawn' = c.withdrawn
    /\ last' = [call EXCEPT !.err = r.err]
    /\ now' = now
    /\ UNCHANGED << poolVars, tokenVars, frame >>

Idle == race.todo = {} /\ last.err = "ok"

(***************************************************************************)
(* A reverted transaction changed nothing on chain; its receipt is dropped *)
(* before the next transaction is taken up.                                *)
(***************************************************************************)
Discard ==
    /\ race.todo = {}
    /\ last.err # "ok"
    /\ last' = NoCall
    /\ race' = NoRace
    /\ UNCHANGED << now, offers, offerIdCounter, offerExpiryTime, lastOfferTime,
                    dailyOfferCount, paused, bal, allowance, status, paidOut,
                    withdrawn >>
    /\ UNCHANGED << poolVars, tokenVars, frame >>

CreateOffer(sender, tokenAddress, amount, priceInBUSD, buyer) ==
    /\ Idle
    /\ offerIdCounter < MaxOffers
    /\ Execute(createOffer(Cur, sender, tokenAddress, amount, priceInBUSD, buyer),
               Call("createOffer", sender, offerIdCounter, tokenAddress, amount))
    /\ race' = NoRace

AcceptOffer(sender, offerId, busdAddress) ==
    /\ Idle
    /\ Execute(acceptOffer(Cur, sender, offerId, busdAddress),
               Call("acceptOffer", sender, offerId, busdAddress, 0))
    /\ race' = NoRace

CancelOffer(sender, offerId) ==
    /\ Idle
    /\ Execute(cancelOffer(Cur, sender, offerId),
               Call("cancelOffer", sender, offerId, Zero, 0))
    /\ race' = NoRace

ReclaimExpired(sender, offerId) ==
    /\ Idle
    /\ Execute(reclaimExpired(Cur, sender, offerId),
               Call("reclaimExpired", sender, offerId, Zero, 0))
    /\ race' = NoRace

Pause(sender) ==
    /\ Idle
    /\ Execute(pause(Cur, sender), Call("pause", sender, 0, Zero, 0))
    /\ race' = NoRace

Unpause(sender) ==
    /\ Idle
    /\ Execute(unpause(Cur, sender), Call("unpause", sender, 0, Zero, 0))
    /\ race' = NoRace

UpdateExpiryTime(sender, newExpiryTime) ==
    /\ Idle
    /\ Execute(updateExpiryTime(Cur, sender, newExpiryTime),
               Call("updateExpiryTime", sender, 0, Zero, 0))
    /\ race' = NoRace

EmergencyWithdraw(sender, token, amount, to) ==
    /\ Idle
    /\ Execute(emergencyWithdraw(Cur, sender, token, amount, to),
               Call("emergencyWithdraw", sender, 0, token, amount))
    /\ race' = NoRace

Approve(sender, token, value) ==
    /\ Idle
    /\ Execute(approve(Cur, sender, token, value),
               Call("approve", sender, 0, token, value))
    /\ race' = NoRace

(***************************************************************************)
(* The clock moves forward between transactions.                           *)
(***************************************************************************)
Tick(t) ==
    /\ Idle
    /\ t > now
    /\ now' = t
    /\ last' = NoCall
    /\ race' = NoRace
    /\ UNCHANGED << offers, offerIdCounter, offerExpiryTime, lastOfferTime,
                    dailyOfferCount, paused, bal, allowance, status, paidOut,
                    withdrawn >>
    /\ UNCHANGED << poolVars, tokenVars, frame >>

(***************************************************************************)
(* Buyer and seller issue acceptOffer and cancelOffer on the same Active   *)
(* offer at the same time, each call being one that would succeed on its   *)
(* own; the chain then mines the two transactions one after the other, in  *)
(* either order, with nothing in between.                                  *)
(***************************************************************************)
IssueRace(offerId, busdAddress) ==
    /\ Idle
    /\ offers[offerId].active
    /\ acceptOffer(Cur, offers[offerId].buyer, offerId, busdAddress).ok
    /\ cancelOffer(Cur, offers[offerId].seller, offerId).ok
    /\ race' = [ id |-> offerId, busd |-> busdAddress, bal |-> bal,
                 todo |-> {"acceptOffer", "cancelOffer"},
                 acceptOffer |-> "pending", cancelOffer |-> "pending" ]
    /\ last' = NoCall
    /\ UNCHANGED << now, offers, offerIdCounter, offerExpiryTime, lastOfferTime,
                    dailyOfferCount, paused, bal, allowance, status, paidOut,
                    withdrawn >>
    /\ UNCHANGED << poolVars, tokenVars, frame >>

MineAccept ==
    /\ "acceptOffer" \in race.todo
    /\ LET r == acceptOffer(Cur, offers[race.id].buyer, race.id, race.busd) IN
       /\ Execute(r, Call("acceptOffer", offers[race.id].buyer, race.id, race.busd, 0))
       /\ race' = [race EXCEPT !.todo = @ \ {"acceptOffer"}, !.acceptOffer = r.err]

MineCancel ==
    /\ "cancelOffer" \in race.todo
    /\ LET r == cancelOffer(Cur, offers[race.id].seller, race.id) IN
       /\ Execute(r, Call("cancelOffer", offers[race.id].seller, race.id, Zero, 0))
       /\ race' = [race EXCEPT !.todo = @ \ {"cancelOffer"}, !.cancelOffer = r.err]

Next ==
    \/ \E sender \in Sellers, tokenAddress \in OfferedTokenArgs, amount \in AmountChoices,
          priceInBUSD \in PriceChoices, buyer \in BuyerArgs :
            CreateOffer(sender, tokenAddress, amount, priceInBUSD, buyer)
    \/ \E sender \in Accounts, offerId \in OfferIds, busdAddress \in TokenArgs :
            AcceptOffer(sender, offerId, busdAddress)
    \/ \E sender \in Accounts, offerId \in OfferIds : CancelOffer(sender, offerId)
    \/ \E sender \in Accounts, offerId \in OfferIds : ReclaimExpired(sender, offerId)
    \/ \E sender \in Accounts : Pause(sender)
    \/ \E sender \in Accounts : Unpause(sender)
    \/ \E sender \in Accounts, newExpiryTime \in ExpiryChoices :
            UpdateExpiryTime(sender, newExpiryTime)
    \/ \E sender \in Accounts, token \in Tokens, to \in RecipientArgs :
            EmergencyWithdraw(sender, token, MaxAmount, to)
    \/ \E a \in ApproveArgs : Approve(a[1], a[2], ApproveValue)
    \/ Discard
    \/ \E t \in ClockValues : Tick(t)
    \/ \E offerId \in OfferIds, busdAddress \in Tokens : IssueRace(offerId, busdAddress)
    \/ MineAccept
    \/ MineCancel

Spec == Init /\ [][Next]_vars

TypeOK ==
    /\ now \in ClockValues
    /\ offerIdCounter \in 0..MaxOffers
    /\ paused \in BOOLEAN
    /\ \A i \in OfferIds : offers[i].active \in BOOLEAN

(***************************************************************************)
(* Notions the properties below are stated in.                             *)
(***************************************************************************)
TerminalOps == {"acceptOffer", "cancelOffer", "reclaimExpired"}
Terminal == {"Settled", "Cancelled", "Expired"}
NotActiveError == "Offer is not active"
TransferErrors == {"ERC20InsufficientAllowance", "ERC20InsufficientBalance"}

\* the step is a call of op (Tick, Discard and IssueRace leave no receipt)
Called(op) == last'.op = op
Returned(op) == last'.op = op /\ last'.err = "ok"

LedgerUnchanged == bal' = bal /\ allowance' = allowance
ContractUnchanged ==
    /\ offers' = offers
    /\ offerIdCounter' = offerIdCounter
    /\ offerExpiryTime' = offerExpiryTime
    /\ lastOfferTime' = lastOfferTime
    /\ dailyOfferCount' = dailyOfferCount
    /\ paused' = paused

\* sum of amount over the Active offers in asset t
RECURSIVE ActiveSumUpTo(_, _)
ActiveSumUpTo(t, n) ==
    IF n < 0 THEN 0
    ELSE ActiveSumUpTo(t, n - 1) +
         (IF offers[n].active /\ offers[n].tokenAddress = t
          THEN offers[n].amount ELSE 0)
ActiveSum(t) == ActiveSumUpTo(t, MaxOffers)

(***************************************************************************)
(* C1.  At most one of acceptOffer, cancelOffer and reclaimExpired ever    *)
(* succeeds on an offer id.  Once one has succeeded the offer is never     *)
(* Active again, and every later accept, cancel or reclaim on that id      *)
(* fails and changes no balance, no allowance and no offer field; the      *)
(* failure is the not-active error (for accept and cancel: unless the      *)
(* escrow has been paused meanwhile, when the pause guard in front of the  *)
(* body rejects the call first).                                           *)
(***************************************************************************)
C1_AtMostOnce ==
    \A i \in OfferIds :
        /\ paidOut[i] <= 1
        /\ (status[i] \in Terminal) <=> (paidOut[i] = 1)
        /\ (status[i] \in Terminal) => ~offers[i].active

C1_Step ==
    /\ \A i \in OfferIds :
          status[i] \in Terminal =>
              /\ status'[i] = status[i]
              /\ paidOut'[i] = paidOut[i]
              /\ ~offers'[i].active
    /\ \A op \in TerminalOps :
          (Called(op) /\ status[last'.id] \in Terminal) =>
              /\ last'.err # "ok"
              /\ (~paused \/ op = "reclaimExpired") => last'.err = NotActiveError
              /\ LedgerUnchanged
              /\ offers' = offers

C1_OnceOnly == []C1_AtMostOnce /\ [][C1_Step]_vars

C1_Witness ==
    /\ last.op \in TerminalOps
    /\ last.err = NotActiveError
    /\ status[last.id] \in Terminal

(***************************************************************************)
(* C2 as stated: in every reachable state the engine's balance of each     *)
(* asset is at least the sum of amount over the Active offers in it.       *)
(***************************************************************************)
C2_CustodyCoversActive ==
    \A t \in Tokens : bal[t][Escrow] >= ActiveSum(t)

(***************************************************************************)
(* C2 amended: the engine's balance of each asset plus what the owner has  *)
(* taken out of it with emergencyWithdraw is at least the sum of amount    *)
(* over the Active offers in it, and the engine's balance of an asset only *)
(* falls in a successful accept, cancel, reclaim or emergencyWithdraw.     *)
(***************************************************************************)
C2_CustodyInv ==
    \A t \in Tokens : bal[t][Escrow] + withdrawn[t] >= ActiveSum(t)

C2_Step ==
    \A t \in Tokens :
        bal'[t][Escrow] < bal[t][Escrow] =>
            \/ \E op \in TerminalOps :
                  /\ Returned(op)
                  /\ offers[last'.id].tokenAddress = t
                  /\ bal'[t][Escrow] = bal[t][Escrow] - offers[last'.id].amount
            \/ /\ Returned("emergencyWithdraw")
               /\ last'.sender = Owner
               /\ paused

C2_CustodyUpToWithdrawals == []C2_CustodyInv /\ [][C2_Step]_vars

C2_Witness ==
    \E t \in Tokens :
        /\ withdrawn[t] > 0
        /\ ActiveSum(t) > 0
        /\ bal[t][Escrow] < ActiveSum(t)

\* balances of one token after value went from one holder to another
Moved(b, from, to, value) ==
    [[b EXCEPT ![from] = @ - value] EXCEPT ![to] = @ + value]

\* all balances after the offer o was settled with payment in token busd
AfterAccept(b, o, busd) ==
    LET b1 == [b EXCEPT ![busd] = Moved(@, o.buyer, o.seller, o.priceInBUSD)]
    IN [b1 EXCEPT ![o.tokenAddress] = Moved(@, Escrow, o.buyer, o.amount)]

\* all balances after the escrowed amount of o went back to its seller
AfterReturn(b, o) ==
    [b EXCEPT ![o.tokenAddress] = Moved(@, Escrow, o.seller, o.amount)]

\* acceptOffer(offerId, busd) by sender passes every check before the payment
AcceptReachesPayment(sender, offerId, busd) ==
    /\ ~paused
    /\ offers[offerId].active
    /\ sender = offers[offerId].buyer
    /\ busd # Zero
    /\ now <= offers[offerId].expiresAt

\* holder cannot have value of token pulled by the escrow
CannotPay(holder, token, value) ==
    allowance[token][holder] < value \/ bal[token][holder] < value

(***************************************************************************)
(* C3.  When the buyer lacks the balance or the allowance for the price,   *)
(* an acceptOffer that passed every check fails as a whole: the offer is   *)
(* still Active with the same fields, no balance and no allowance has      *)
(* changed, and a cancel by the seller right after still succeeds (as long *)
(* as the engine holds the amount).                                        *)
(***************************************************************************)
C3_Step ==
    LET id == last'.id
        o  == offers[id]
    IN
    ( /\ Called("acceptOffer")
      /\ AcceptReachesPayment(last'.sender, id, last'.token)
      /\ CannotPay(last'.sender, last'.token, o.priceInBUSD) )
    =>
    /\ last'.err \in TransferErrors
    /\ LedgerUnchanged
    /\ ContractUnchanged
    /\ status' = status /\ paidOut' = paidOut
    /\ offers'[id].active
    /\ bal'[o.tokenAddress][Escrow] >= o.amount => cancelOffer(Cur', o.seller, id).ok

C3_FailedPaymentIsAtomic == [][C3_Step]_vars

C3_Witness ==
    /\ last.op = "acceptOffer"
    /\ last.err = "ERC20InsufficientBalance"
    /\ offers[last.id].active
    /\ bal[last.token][last.sender] < offers[last.id].priceInBUSD

(***************************************************************************)
(* C4.  acceptOffer by the buyer and cancelOffer by the seller issued      *)
(* together on one Active offer: whichever is mined first succeeds, the    *)
(* other fails with the not-active error, and the escrowed amount leaves   *)
(* custody exactly once, to the buyer when the accept won and back to the  *)
(* seller when the cancel won.                                             *)
(***************************************************************************)
C4_RaceInv ==
    race.acceptOffer # "none" =>
        LET o == offers[race.id]
            mined == {"acceptOffer", "cancelOffer"} \ race.todo
            won == { op \in mined : race[op] = "ok" }
        IN
        /\ mined = {} => paidOut[race.id] = 0 /\ bal = race.bal
        /\ mined # {} =>
              /\ Cardinality(won) = 1
              /\ \A op \in mined \ won : race[op] = NotActiveError
              /\ paidOut[race.id] = 1
              /\ ~o.active
              /\ "acceptOffer" \in won =>
                    /\ status[race.id] = "Settled"
                    /\ bal = AfterAccept(race.bal, o, race.busd)
              /\ "cancelOffer" \in won =>
                    /\ status[race.id] = "Cancelled"
                    /\ bal = AfterReturn(race.bal, o)

C4_Witness ==
    /\ race.todo = {}
    /\ race.cancelOffer = "ok"
    /\ race.acceptOffer = NotActiveError

(***************************************************************************)
(* C5.  createOffer moves exactly amount of the offered asset from the     *)
(* seller into custody; the one accept, cancel or reclaim that ends the    *)
(* offer moves exactly that amount out of custody, to the buyer when       *)
(* accepted and to the seller when cancelled or reclaimed, and nothing     *)
(* else of that asset moves except the price when the buyer pays in the    *)
(* offered asset itself; the four operations keep the total of the asset   *)
(* over seller, buyer and engine.                                          *)
(***************************************************************************)
HeldByParties(b, o) ==
    b[o.tokenAddress][o.seller] + b[o.tokenAddress][o.buyer]
        + b[o.tokenAddress][Escrow]

C5_Step ==
    /\ Returned("createOffer") =>
          LET o == offers'[last'.id] IN
          /\ o.amount = last'.amount /\ o.seller = last'.sender
          /\ o.tokenAddress = last'.token
          /\ bal' = [bal EXCEPT ![o.tokenAddress] =
                        Moved(@, o.seller, Escrow, o.amount)]
          /\ paidOut'[last'.id] = 0
          /\ HeldByParties(bal', o) = HeldByParties(bal, o)
    /\ Returned("acceptOffer") =>
          LET o == offers[last'.id] IN
          /\ bal' = AfterAccept(bal, o, last'.token)
          /\ bal'[o.tokenAddress][Escrow] = bal[o.tokenAddress][Escrow] - o.amount
          /\ paidOut[last'.id] = 0 /\ paidOut'[last'.id] = 1
          /\ HeldByParties(bal', o) = HeldByParties(bal, o)
    /\ \A op \in {"cancelOffer", "reclaimExpired"} :
          Returned(op) =>
              LET o == offers[last'.id] IN
              /\ bal' = AfterReturn(bal, o)
              /\ paidOut[last'.id] = 0 /\ paidOut'[last'.id] = 1
              /\ HeldByParties(bal', o) = HeldByParties(bal, o)
    /\ \A op \in TerminalOps \cup {"createOffer"} :
          (Called(op) /\ last'.err # "ok") => bal' = bal

C5_Conservation == [][C5_Step]_vars

C5_Witness ==
    /\ last.op = "acceptOffer"
    /\ last.err = "ok"
    /\ paidOut[last.id] = 1
    /\ bal[offers[last.id].tokenAddress][offers[last.id].buyer]
          >= offers[last.id].amount

(***************************************************************************)
(* C6.  acceptOffer returns only for the offer's buyer, cancelOffer only   *)
(* for its seller, reclaimExpired only when now > expiresAt; on an Active  *)
(* offer a call by any other account, or a reclaim at now <= expiresAt,    *)
(* fails, leaves the offer Active and changes no balance.                  *)
(***************************************************************************)
C6_Step ==
    LET id == last'.id
        o  == offers[id]
        Rejected == /\ last'.err # "ok"
                    /\ LedgerUnchanged
                    /\ ContractUnchanged
                    /\ status' = status
                    /\ offers'[id].active
    IN
    /\ Returned("acceptOffer") => o.active /\ last'.sender = o.buyer
    /\ Returned("cancelOffer") => o.active /\ last'.sender = o.seller
    /\ Returned("reclaimExpired") => o.active /\ now > o.expiresAt
    /\ (Called("acceptOffer") /\ o.active /\ last'.sender # o.buyer) => Rejected
    /\ (Called("cancelOffer") /\ o.active /\ last'.sender # o.seller) => Rejected
    /\ (Called("reclaimExpired") /\ o.active /\ now <= o.expiresAt) => Rejected

C6_Authorization == [][C6_Step]_vars

C6_Witness ==
    /\ last.op = "acceptOffer"
    /\ last.err = "Not the designated buyer"
    /\ offers[last.id].active
    /\ last.sender = offers[last.id].seller

(***************************************************************************)
(* C7 as stated: every successful acceptOffer pays the seller priceQuote   *)
(* of the quote asset out of the buyer's balance of the quote asset and    *)
(* gives the buyer amount of the offered asset, whatever token the caller  *)
(* passes.                                                                 *)
(***************************************************************************)
C7_Step ==
    Returned("acceptOffer") =>
        LET o == offers[last'.id] IN
        o.tokenAddress # QuoteAsset =>
            /\ bal'[QuoteAsset][o.seller] = bal[QuoteAsset][o.seller] + o.priceInBUSD
            /\ bal'[QuoteAsset][o.buyer] = bal[QuoteAsset][o.buyer] - o.priceInBUSD
            /\ bal'[o.tokenAddress][o.buyer] = bal[o.tokenAddress][o.buyer] + o.amount

C7_SellerPaidInQuoteAsset == [][C7_Step]_vars

(***************************************************************************)
(* C8.  A createOffer that passed validation and rate limiting while the   *)
(* seller lacks the balance or the allowance for amount fails and leaves   *)
(* everything as it was: no offer stored, the id counter, the seller's     *)
(* last offer time and daily count, and all balances and allowances        *)
(* unchanged.                                                              *)
(***************************************************************************)
C8_Step ==
    ( /\ Called("createOffer")
      /\ last'.err \in {"ok"} \cup TransferErrors
      /\ CannotPay(last'.sender, last'.token, last'.amount) )
    =>
    /\ last'.err \in TransferErrors
    /\ LedgerUnchanged
    /\ ContractUnchanged
    /\ status' = status
    /\ ~offers'[last'.id].active

C8_FailedCreateIsAtomic == [][C8_Step]_vars

C8_Witness ==
    /\ last.op = "createOffer"
    /\ last.err = "ERC20InsufficientBalance"
    /\ bal[last.token][last.sender] < last.amount
    /\ lastOfferTime[last.sender] < now
    /\ offerIdCounter = last.id

(***************************************************************************)
(* C9.  acceptOffer by the designated buyer on an Active offer (escrow not *)
(* paused, a token named): at now <= expiresAt it is never refused as      *)
(* expired and succeeds whenever the buyer can pay and the engine holds    *)
(* the amount; at now > expiresAt it fails with the expired error, the     *)
(* offer stays Active and nothing changes.                                 *)
(***************************************************************************)
C9_Step ==
    LET id == last'.id
        o  == offers[id]
    IN
    ( /\ Called("acceptOffer")
      /\ ~paused
      /\ o.active
      /\ last'.sender = o.buyer
      /\ last'.token # Zero )
    =>
    /\ now <= o.expiresAt =>
          /\ last'.err # "Offer has expired"
          /\ ( /\ ~CannotPay(last'.sender, last'.token, o.priceInBUSD)
               /\ bal[o.tokenAddress][Escrow] >= o.amount ) => last'.err = "ok"
    /\ now > o.expiresAt =>
          /\ last'.err = "Offer has expired"
          /\ LedgerUnchanged
          /\ ContractUnchanged
          /\ offers'[id].active
          /\ status'[id] = "Active"

C9_ExpiryBoundary == [][C9_Step]_vars

C9_Witness ==
    /\ last.op = "acceptOffer"
    /\ last.err = "ok"
    /\ now = offers[last.id].expiresAt

(***************************************************************************)
(* C10.  reclaimExpired on an Active offer with now > expiresAt, the       *)
(* engine holding the amount, succeeds whoever calls it: the amount goes   *)
(* from custody to the offer's seller, no other balance changes, so the    *)
(* caller's balances are unchanged unless the caller is the seller.        *)
(***************************************************************************)
C10_Step ==
    LET id == last'.id
        o  == offers[id]
    IN
    ( /\ Called("reclaimExpired")
      /\ o.active
      /\ now > o.expiresAt
      /\ bal[o.tokenAddress][Escrow] >= o.amount )
    =>
    /\ last'.err = "ok"
    /\ bal' = AfterReturn(bal, o)
    /\ allowance' = allowance
    /\ status'[id] = "Expired"
    /\ ~offers'[id].active
    /\ last'.sender # o.seller =>
          \A t \in Tokens : bal'[t][last'.sender] = bal[t][last'.sender]

C10_ReclaimPaysSeller == [][C10_Step]_vars

C10_Witness ==
    /\ last.op = "reclaimExpired"
    /\ last.err = "ok"
    /\ last.sender \notin {offers[last.id].seller, offers[last.id].buyer}
    /\ status[last.id] = "Expired"

(***************************************************************************)
(* Rate limiting.                                                          *)
(*                                                                         *)
(* SpecRate is the same contract seen over a longer life: both traders     *)
(* sell, the ledgers are funded and approved for every offer made, and     *)
(* the clock visits the instants around the cooldown and the one-day       *)
(* window.  It starts either right after deployment or after the seller    *)
(* WarmUpSeller has already made WarmUpOffers offers one cooldown apart,   *)
(* the state createOffer itself produces from the deployed contract.       *)
(***************************************************************************)
MaxRateOffers == 3      \* offers created in SpecRate after its initial state
MaxRateClockSteps == 6  \* SpecRate's clock visits the first MaxRateClockSteps instants

WarmUpOffers == MAX_OFFERS_PER_DAY - 2
WarmUpSeller == "alice"
WarmUpBuyer == "bob"
RateOfferIds == 0..(WarmUpOffers + MaxRateOffers)
RateTargetIds == {WarmUpOffers}
RateAmountChoices == {0, MaxAmount}
RateBalance == MaxAmount * (MAX_OFFERS_PER_DAY + MaxRateOffers + 1)
HalfDay == ONE_DAY \div 2
RateClockInstants ==
    << StartTime,
       StartTime + OFFER_COOLDOWN - 1,
       StartTime + OFFER_COOLDOWN,
       StartTime + HalfDay,
       StartTime + ONE_DAY,
       StartTime + ONE_DAY + OFFER_COOLDOWN,
       StartTime + ONE_DAY + HalfDay >>
RateClockValues ==
    { RateClockInstants[i] : i \in 1..Min(MaxRateClockSteps, Len(RateClockInstants)) }

(***************************************************************************)
(* The contract and the ledgers right after deployment, every trader       *)
(* holding minted of each token and having approved the escrow for         *)
(* approved of it.                                                         *)
(***************************************************************************)
Deployed(ids, minted, approved) ==
    [ now |-> StartTime,
      offers |-> [i \in ids |-> EmptyOffer],
      offerIdCounter |-> 0,
      offerExpiryTime |-> DEFAULT_EXPIRY_TIME,
      lastOfferTime |-> [a \in Accounts |-> 0],
      dailyOfferCount |-> [a \in Accounts |-> 0],
      paused |-> FALSE,
      bal |-> [t \in Tokens |->
                 [h \in Holders |-> IF h \in Traders THEN minted ELSE 0]],
      allowance |-> [t \in Tokens |->
                 [a \in Accounts |-> IF a \in Traders THEN approved ELSE 0]],
      status |-> [i \in ids |-> "None"],
      paidOut |-> [i \in ids |-> 0],
      withdrawn |-> [t \in Tokens |-> 0] ]

(***************************************************************************)
(* The state after WarmUpSeller's first k createOffer transactions, mined  *)
(* one cooldown apart, the last of them at time t.                         *)
(***************************************************************************)
AfterOffers(k, t) ==
    LET d == Deployed(RateOfferIds, RateBalance, RateBalance) IN
    IF k = 0 THEN d
    ELSE
      [ d EXCEPT
          !.now = t,
          !.offers =
              [i \in RateOfferIds |->
                 IF i < k
                 THEN [ id |-> i, seller |-> WarmUpSeller, buyer |-> WarmUpBuyer,
                        tokenAddress |-> "SWAT", amount |-> MaxAmount,
                        priceInBUSD |-> MaxAmount, active |-> TRUE,
                        createdAt |-> t - (k - 1 - i) * OFFER_COOLDOWN,
                        expiresAt |-> t - (k - 1 - i) * OFFER_COOLDOWN
                                        + DEFAULT_EXPIRY_TIME ]
                 ELSE EmptyOffer],
          !.offerIdCounter = k,
          !.lastOfferTime[WarmUpSeller] = t,
          !.dailyOfferCount[WarmUpSeller] = k,
          !.bal["SWAT"][WarmUpSeller] = @ - k * MaxAmount,
          !.bal["SWAT"][Escrow] = @ + k * MaxAmount,
          !.allowance["SWAT"][WarmUpSeller] = @ - k * MaxAmount,
          !.status = [i \in RateOfferIds |-> IF i < k THEN "Active" ELSE "None"] ]

(***************************************************************************)
(* Each of those k states is what createOffer returns on the one before.   *)
(***************************************************************************)
ReachedByCreateOffer(k, t) ==
    \A j \in 1..k :
        LET tj == t - (k - j) * OFFER_COOLDOWN
            q  == [AfterOffers(j - 1, tj - OFFER_COOLDOWN) EXCEPT !.now = tj]
            r  == createOffer(q, WarmUpSeller, "SWAT", MaxAmount, MaxAmount,
                              WarmUpBuyer)
        IN r.ok /\ r.st = AfterOffers(j, tj)

RateInit ==
    \E k \in {0, WarmUpOffers} :
      LET s == AfterOffers(k, StartTime - OFFER_COOLDOWN)
      IN
      /\ ReachedByCreateOffer(k, StartTime - OFFER_COOLDOWN)
      /\ now = StartTime
      /\ offers = s.offers
      /\ offerIdCounter = s.offerIdCounter
      /\ offerExpiryTime = s.offerExpiryTime
      /\ lastOfferTime = s.lastOfferTime
      /\ dailyOfferCount = s.dailyOfferCount
      /\ paused = s.paused
      /\ bal = s.bal
      /\ allowance = s.allowance
      /\ status = s.status
      /\ paidOut = s.paidOut
      /\ withdrawn = s.withdrawn
      /\ last = NoCall
      /\ race = NoRace
      /\ PoolDeployed(0, 0)
      /\ swat = SWATTokenDeployed
      /\ frame = NoFrame
    /\ args = << >>

RateCreateOffer(sender, amount, buyer) ==
    /\ Idle
    /\ \/ offerIdCounter < MaxRateOffers
       \/ /\ WarmUpOffers <= offerIdCounter
          /\ offerIdCounter < WarmUpOffers + MaxRateOffers
    /\ Execute(createOffer(Cur, sender, "SWAT", amount, MaxAmount, buyer),
               Call("createOffer", sender, offerIdCounter, "SWAT", amount))
    /\ race' = NoRace

RateTick(t) ==
    /\ Idle
    /\ t > now
    /\ now' = t
    /\ last' = NoCall
    /\ race' = NoRace
    /\ UNCHANGED << offers, offerIdCounter, offerExpiryTime, lastOfferTime,
                    dailyOfferCount, paused, bal, allowance, status, paidOut,
                    withdrawn >>
    /\ UNCHANGED << poolVars, tokenVars, frame >>

RateNext ==
    \/ \E sender \in Traders, amount \in RateAmountChoices :
            RateCreateOffer(sender, amount, CHOOSE b \in Traders : b # sender)
    \/ \E sender \in Traders, offerId \in RateTargetIds :
            AcceptOffer(sender, offerId, QuoteAsset)
    \/ \E sender \in Traders, offerId \in RateTargetIds : CancelOffer(sender, offerId)
    \/ \E sender \in Traders, offerId \in RateTargetIds : ReclaimExpired(sender, offerId)
    \/ Discard
    \/ \E t \in RateClockValues : RateTick(t)

SpecRate == RateInit /\ [][RateNext]_vars

RateTypeOK ==
    /\ now \in RateClockValues
    /\ offerIdCounter \in RateOfferIds
    /\ \A a \in Accounts : dailyOfferCount[a] \in 0..(MAX_OFFERS_PER_DAY + 1)

(***************************************************************************)
(* The failures of createOffer, in the order its body raises them.         *)
(***************************************************************************)
PauseError == "EnforcedPause"
ArgumentErrors ==
    { "Invalid token address", "Amount must be > 0", "Price must be > 0",
      "Invalid buyer address", "Buyer cannot be seller" }
CooldownError == "Cooldown period active"
DailyLimitError == "Daily offer limit reached"

\* ids issued so far to seller a
IssuedTo(a) == { i \in DOMAIN offers : i < offerIdCounter /\ offers[i].seller = a }

(***************************************************************************)
(* C11.  Any two successful createOffer calls of one seller are at least   *)
(* OFFER_COOLDOWN apart.  A createOffer at now < lastOfferTime[seller] +   *)
(* OFFER_COOLDOWN fails and changes no state, with the cooldown error      *)
(* unless the pause guard or an argument check rejects it first; at        *)
(* now >= lastOfferTime[seller] + OFFER_COOLDOWN it is never rejected by   *)
(* the cooldown.  lastOfferTime[seller] moves only on that seller's own    *)
(* successful createOffer, to the time of the call.                        *)
(***************************************************************************)
C11_Apart ==
    \A a \in Accounts : \A i \in IssuedTo(a), j \in IssuedTo(a) :
        i < j => offers[j].createdAt >= offers[i].createdAt + OFFER_COOLDOWN

C11_Step ==
    \A a \in Accounts :
        /\ ( /\ Called("createOffer")
             /\ last'.sender = a
             /\ now < lastOfferTime[a] + OFFER_COOLDOWN )
           =>
           /\ last'.err \in {PauseError, CooldownError} \cup ArgumentErrors
           /\ LedgerUnchanged
           /\ ContractUnchanged
           /\ status' = status
        /\ ( /\ Called("createOffer")
             /\ last'.sender = a
             /\ now >= lastOfferTime[a] + OFFER_COOLDOWN )
           => last'.err # CooldownError
        /\ IF Returned("createOffer") /\ last'.sender = a
           THEN lastOfferTime'[a] = now
           ELSE lastOfferTime'[a] = lastOfferTime[a]

C11_Cooldown == []C11_Apart /\ [][C11_Step]_vars

C11_Witness ==
    /\ last.op = "createOffer"
    /\ last.err = CooldownError
    /\ \E i \in IssuedTo(last.sender), j \in IssuedTo(last.sender) :
          offers[j].createdAt = offers[i].createdAt + OFFER_COOLDOWN
    /\ \E b \in Accounts \ {last.sender} : \E i \in IssuedTo(b) :
          offers[i].createdAt > lastOfferTime[last.sender]

(***************************************************************************)
(* C12.  No account's daily offer count ever exceeds MAX_OFFERS_PER_DAY.   *)
(* A createOffer by a seller whose count has reached the maximum, less     *)
(* than a day after that seller's last offer, fails and changes no state;  *)
(* the failure is the daily-limit error unless the pause guard, an         *)
(* argument check or, inside the cooldown, the cooldown check rejects the  *)
(* call first.                                                             *)
(***************************************************************************)
C12_Bounded ==
    \A a \in Accounts : dailyOfferCount[a] \in 0..MAX_OFFERS_PER_DAY

C12_Step ==
    \A a \in Accounts :
        ( /\ Called("createOffer")
          /\ last'.sender = a
          /\ dailyOfferCount[a] >= MAX_OFFERS_PER_DAY
          /\ now < lastOfferTime[a] + ONE_DAY )
        =>
        /\ last'.err \in
              {PauseError, DailyLimitError} \cup ArgumentErrors \cup
              (IF now < lastOfferTime[a] + OFFER_COOLDOWN
               THEN {CooldownError} ELSE {})
        /\ LedgerUnchanged
        /\ ContractUnchanged
        /\ status' = status

C12_DailyLimit == []C12_Bounded /\ [][C12_Step]_vars

C12_Witness ==
    /\ last.op = "createOffer"
    /\ last.err = DailyLimitError
    /\ dailyOfferCount[last.sender] = MAX_OFFERS_PER_DAY
    /\ now >= lastOfferTime[last.sender] + OFFER_COOLDOWN

\* the time of the first of the offers counted in dailyOfferCount[a]
WindowStart(a) ==
    LET i == CHOOSE i \in IssuedTo(a) :
                 Cardinality({ j \in IssuedTo(a) : j >= i }) = dailyOfferCount[a]
    IN offers[i].createdAt

\* the offers a made during the last 24 hours
MadeInLastDay(a) == { i \in IssuedTo(a) : offers[i].createdAt > now - ONE_DAY }

(***************************************************************************)
(* C13.  A seller's daily count is reset by the first createOffer at or    *)
(* after one day past the start of the current window, the time of the     *)
(* first offer counted in it: that offer makes the count 1.  A seller who  *)
(* made fewer than MAX_OFFERS_PER_DAY offers during the last 24 hours is   *)
(* never rejected with the daily-limit error.                              *)
(***************************************************************************)
C13_Step ==
    \A a \in Accounts :
        /\ ( /\ Returned("createOffer")
             /\ last'.sender = a
             /\ dailyOfferCount[a] > 0
             /\ now >= WindowStart(a) + ONE_DAY )
           => dailyOfferCount'[a] = 1
        /\ ( /\ Called("createOffer")
             /\ last'.sender = a
             /\ Cardinality(MadeInLastDay(a)) < MAX_OFFERS_PER_DAY )
           => last'.err # DailyLimitError

C13_ResetAtWindowStart == [][C13_Step]_vars

(***************************************************************************)
(* getOfferCount(): the id counter.                                        *)
(***************************************************************************)
getOfferCount(s) == s.offerIdCounter

\* the ids for which OfferCreated has been emitted
CreatedIds == { i \in DOMAIN status : status[i] # "None" }

(***************************************************************************)
(* C14.  Offer ids are issued from zero upwards without gaps and never     *)
(* reused: the ids created so far are exactly 0 .. getOfferCount() - 1,    *)
(* each stored under its own id; a successful createOffer takes the id     *)
(* getOfferCount() had before the call, which no offer had before, and     *)
(* raises the count by one, leaving every other offer as it was; a failed  *)
(* createOffer and every other call leave the count and the ids alone.     *)
(***************************************************************************)
C14_Dense ==
    /\ CreatedIds = { i \in DOMAIN offers : i < getOfferCount(Cur) }
    /\ Cardinality(CreatedIds) = getOfferCount(Cur)
    /\ \A i \in DOMAIN offers :
          IF i < getOfferCount(Cur)
          THEN offers[i].id = i /\ offers[i].seller # Zero
          ELSE offers[i] = EmptyOffer

C14_Step ==
    IF Returned("createOffer")
    THEN LET id == last'.id IN
         /\ id = getOfferCount(Cur)
         /\ getOfferCount(Cur)' = id + 1
         /\ status[id] = "None"
         /\ status'[id] = "Active"
         /\ offers'[id].id = id
         /\ offers'[id].seller = last'.sender
         /\ \A i \in DOMAIN offers \ {id} :
               offers'[i].id = offers[i].id /\ offers'[i].seller = offers[i].seller
    ELSE /\ getOfferCount(Cur)' = getOfferCount(Cur)
         /\ CreatedIds' = CreatedIds

C14_IdsInOrder == []C14_Dense /\ [][C14_Step]_vars

C14_Witness ==
    /\ last.op = "createOffer"
    /\ last.err = "ok"
    /\ last.id = 2
    /\ getOfferCount(Cur) = 3
    /\ offers[1].seller # offers[2].seller

\* createOffer arguments that one of the argument requires refuses
InvalidArguments(sender, tokenAddress, amount, priceInBUSD, buyer) ==
    \/ tokenAddress = Zero
    \/ amount = 0
    \/ priceInBUSD = 0
    \/ buyer = Zero
    \/ buyer = sender

(***************************************************************************)
(* C15.  In every reachable state a createOffer whose asset is the zero    *)
(* address, whose amount or price is 0, or whose buyer is the zero address *)
(* or the seller, fails and leaves the whole state as it was.  Every       *)
(* stored offer has amount > 0, price > 0, a buyer different from the      *)
(* seller and from the zero address, and a token different from the zero   *)
(* address.                                                                *)
(***************************************************************************)
C15_Rejects ==
    LET c == Cur IN
    \A sender \in Sellers, tokenAddress \in OfferedTokenArgs, amount \in AmountChoices,
       priceInBUSD \in PriceChoices, buyer \in BuyerArgs :
        InvalidArguments(sender, tokenAddress, amount, priceInBUSD, buyer) =>
            LET r == createOffer(c, sender, tokenAddress, amount, priceInBUSD, buyer)
            IN /\ ~r.ok
               /\ r.err \in {PauseError} \cup ArgumentErrors
               /\ Commit(c, r) = c

C15_Stored ==
    \A i \in OfferIds :
        i < offerIdCounter =>
            /\ offers[i].amount > 0
            /\ offers[i].priceInBUSD > 0
            /\ offers[i].buyer # offers[i].seller
            /\ offers[i].buyer # Zero
            /\ offers[i].tokenAddress # Zero

C15_ValidOffersOnly == C15_Rejects /\ C15_Stored

C15_Witness ==
    /\ last.op = "createOffer"
    /\ last.err = "Buyer cannot be seller"
    /\ last.token # Zero
    /\ last.amount > 0
    /\ offerIdCounter = 0

\* the functions declared whenNotPaused
PausableOps == {"createOffer", "acceptOffer", "cancelOffer"}
OwnerError == "OwnableUnauthorizedAccount"

(***************************************************************************)
(* C16.  While the escrow is paused, createOffer, acceptOffer and          *)
(* cancelOffer fail with the pause error and leave offers, rate-limit      *)
(* state, balances and allowances unchanged.  The paused flag changes      *)
(* only by a successful pause or unpause of the owner; pause and unpause   *)
(* by anyone else fail.  When the escrow is not paused (in particular      *)
(* after unpause) the three calls are never refused by the pause guard     *)
(* and succeed under their own preconditions.                              *)
(***************************************************************************)
C16_Step ==
    LET id == last'.id
        o  == offers[id]
    IN
    /\ (last'.op \in PausableOps /\ paused) =>
          /\ last'.err = PauseError
          /\ LedgerUnchanged
          /\ ContractUnchanged
          /\ status' = status
    /\ (last'.op \in PausableOps /\ ~paused) => last'.err # PauseError
    /\ paused' # paused =>
          /\ last'.sender = Owner
          /\ last'.err = "ok"
          /\ last'.op = (IF paused' THEN "pause" ELSE "unpause")
    /\ (last'.op \in {"pause", "unpause"} /\ last'.sender # Owner) =>
          /\ last'.err = OwnerError
          /\ paused' = paused
    /\ Returned("pause") => paused'
    /\ Returned("unpause") => ~paused'
    /\ ( /\ Called("createOffer")
         /\ ~paused
         /\ last'.err \notin ArgumentErrors \cup {CooldownError, DailyLimitError}
         /\ ~CannotPay(last'.sender, last'.token, last'.amount) )
       => last'.err = "ok"
    /\ ( /\ Called("acceptOffer")
         /\ ~paused
         /\ o.active
         /\ last'.sender = o.buyer
         /\ last'.token # Zero
         /\ now <= o.expiresAt
         /\ ~CannotPay(last'.sender, last'.token, o.priceInBUSD)
         /\ bal[o.tokenAddress][Escrow] >= o.amount )
       => last'.err = "ok"
    /\ ( /\ Called("cancelOffer")
         /\ ~paused
         /\ o.active
         /\ last'.sender = o.seller
         /\ bal[o.tokenAddress][Escrow] >= o.amount )
       => last'.err = "ok"

C16_Pause == [][C16_Step]_vars

C16_Witness ==
    /\ last.op = "cancelOffer"
    /\ last.err = PauseError
    /\ paused
    /\ offers[last.id].active
    /\ last.sender = offers[last.id].seller
    /\ bal[offers[last.id].tokenAddress][Escrow] >= offers[last.id].amount

(***************************************************************************)
(* getRemainingOffers without the test for a day having passed.            *)
(***************************************************************************)
getRemainingOffers_ignoresWindow(s, user) ==
    LET used == s.dailyOfferCount[user]
    IN IF used >= MAX_OFFERS_PER_DAY THEN 0 ELSE MAX_OFFERS_PER_DAY - used

(***************************************************************************)
(* getRemainingOffers(user): the view function.                            *)
(***************************************************************************)
getRemainingOffers(s, user) ==
    IF s.now >= s.lastOfferTime[user] + ONE_DAY
    THEN MAX_OFFERS_PER_DAY
    ELSE LET used == s.dailyOfferCount[user]
         IN IF used >= MAX_OFFERS_PER_DAY THEN 0 ELSE MAX_OFFERS_PER_DAY - used

\* the daily-limit require of createOffer, after its lazy reset, refuses user
DailyLimitHit(user) ==
    LET counted == IF now >= lastOfferTime[user] + ONE_DAY
                   THEN 0 ELSE dailyOfferCount[user]
    IN ~(counted < MAX_OFFERS_PER_DAY)

(***************************************************************************)
(* C17.  getRemainingOffers(user) is MAX_OFFERS_PER_DAY for a user who     *)
(* never made an offer; every successful createOffer of that user lowers   *)
(* it by exactly one; createOffer calls of other users, failed calls, and  *)
(* acceptOffer, cancelOffer and reclaimExpired leave it unchanged; it is   *)
(* 0 exactly when the daily-limit check of createOffer refuses that user:  *)
(* a createOffer is rejected with the daily-limit error only at 0, and at  *)
(* 0 every createOffer of the user fails.                                  *)
(***************************************************************************)
C17_Remaining ==
    \A u \in Accounts :
        /\ getRemainingOffers(Cur, u) \in 0..MAX_OFFERS_PER_DAY
        /\ IssuedTo(u) = {} => getRemainingOffers(Cur, u) = MAX_OFFERS_PER_DAY
        /\ getRemainingOffers(Cur, u) = 0 <=> DailyLimitHit(u)

C17_Step ==
    \A u \in Accounts :
        /\ IF Returned("createOffer") /\ last'.sender = u
           THEN getRemainingOffers(Cur, u)' = getRemainingOffers(Cur, u) - 1
           ELSE last'.op # "none" =>
                    getRemainingOffers(Cur, u)' = getRemainingOffers(Cur, u)
        /\ (Called("createOffer") /\ last'.sender = u) =>
              /\ last'.err = DailyLimitError => getRemainingOffers(Cur, u) = 0
              /\ getRemainingOffers(Cur, u) = 0 => last'.err # "ok"

C17_RemainingOffers == []C17_Remaining /\ [][C17_Step]_vars

C17_Witness ==
    /\ last.op \in TerminalOps
    /\ last.err = "ok"
    /\ getRemainingOffers(Cur, offers[last.id].seller) = 0
    /\ getRemainingOffers(Cur, offers[last.id].buyer) = MAX_OFFERS_PER_DAY - 1

(***************************************************************************)
(* The exchange.                                                           *)
(*                                                                         *)
(* The handlers below thread the state of factory, pair and the token      *)
(* ledgers through the statements of the Solidity bodies the same way the  *)
(* escrow handlers do; a handler that returns hands back its return        *)
(* values next to the state.                                               *)
(***************************************************************************)
PoolCur ==
    [ now |-> now, getPair |-> getPair, allPairs |-> allPairs, token0 |-> token0, token1 |-> token1,
      reserve0 |-> reserve0, reserve1 |-> reserve1, totalSupply |-> totalSupply,
      balanceOf |-> balanceOf, tokenBalance |-> tokenBalance,
      routerAllowance |-> routerAllowance ]

Return(s, values) == [ ok |-> TRUE, err |-> "ok", st |-> s, ret |-> values ]

\* Solidity 0.8 checked arithmetic
ArithmeticPanic == "Panic(0x11)"
DivisionPanic == "Panic(0x12)"

\* tokenA < tokenB on addresses
AddressRank == [ zero |-> 0, SWAT |-> 1, BUSD |-> 2, WBNB |-> 3 ]
Before(tokenA, tokenB) == AddressRank[tokenA] < AddressRank[tokenB]

(***************************************************************************)
(* type(uint112).max is 2^112 - 1 in the contract.  The amounts of the     *)
(* model stay below 2^31, so the width of the reserves is scaled down to   *)
(* 13 bits: what matters is on which side of the limit a balance lies.     *)
(***************************************************************************)
UINT112_MAX == 8191

\* x <= type(uint112).max
FitsUint112(x) == x <= UINT112_MAX

(***************************************************************************)
(* ERC20 of a traded token: transfer, and transferFrom with the router as  *)
(* spender (an allowance of type(uint256).max is not spent).               *)
(***************************************************************************)
erc20Transfer(s, token, from, to, value) ==
    IF s.tokenBalance[token][from] < value
    THEN Revert(s, "ERC20InsufficientBalance")
    ELSE Return([s EXCEPT !.tokenBalance[token] =
                    [[@ EXCEPT ![from] = @ - value] EXCEPT ![to] = @ + value]],
                << TRUE >>)

_spendAllowance(s, asset, owner, value) ==
    LET current == s.routerAllowance[asset][owner] IN
    IF current = Unlimited THEN Ok(s)
    ELSE IF current < value THEN Revert(s, "ERC20InsufficientAllowance")
    ELSE Ok([s EXCEPT !.routerAllowance[asset][owner] = @ - value])

erc20TransferFrom(s, token, from, to, value) ==
    LET a == _spendAllowance(s, token, from, value) IN
    IF ~a.ok THEN a ELSE erc20Transfer(a.st, token, from, to, value)

(***************************************************************************)
(* ERC20 of the pair itself, the liquidity token.                          *)
(***************************************************************************)
_mint(s, to, value) ==
    Ok([s EXCEPT !.totalSupply = @ + value, !.balanceOf[to] = @ + value])

_burn(s, from, value) ==
    IF s.balanceOf[from] < value
    THEN Revert(s, "ERC20InsufficientBalance")
    ELSE Ok([s EXCEPT !.totalSupply = @ - value, !.balanceOf[from] = @ - value])

lpTransfer(s, from, to, value) ==
    IF s.balanceOf[from] < value
    THEN Revert(s, "ERC20InsufficientBalance")
    ELSE Return([s EXCEPT !.balanceOf =
                    [[@ EXCEPT ![from] = @ - value] EXCEPT ![to] = @ + value]],
                << TRUE >>)

lpTransferFrom(s, from, to, value) ==
    LET a == _spendAllowance(s, LP, from, value) IN
    IF ~a.ok THEN a ELSE lpTransfer(a.st, from, to, value)

(***************************************************************************)
(* MockPair.sqrt (the Babylonian iteration) and MockPair.min.              *)
(***************************************************************************)
RECURSIVE sqrtLoop(_, _, _)
sqrtLoop(y, z, x) ==
    IF x < z THEN sqrtLoop(y, x, (y \div x + x) \div 2) ELSE z

sqrt(y) ==
    IF y > 3 THEN sqrtLoop(y, y, y \div 2 + 1)
    ELSE IF y # 0 THEN 1
    ELSE 0

min(x, y) == IF x < y THEN x ELSE y

(***************************************************************************)
(* MockPair._update that casts the balances to uint112 without the test.   *)
(***************************************************************************)
_update_truncates(s, balance0, balance1) ==
    Ok([s EXCEPT !.reserve0 = balance0 % (UINT112_MAX + 1),
                 !.reserve1 = balance1 % (UINT112_MAX + 1)])

(***************************************************************************)
(* MockPair._update: the reserves become the balances handed in.           *)
(***************************************************************************)
_update(s, balance0, balance1) ==
    IF ~(FitsUint112(balance0) /\ FitsUint112(balance1))
    THEN Revert(s, "MockPair: OVERFLOW")
    ELSE Ok([s EXCEPT !.reserve0 = balance0, !.reserve1 = balance1])

(***************************************************************************)
(* mint that leaves the reserves as they were.                             *)
(***************************************************************************)
mint_noUpdate(s, to) ==
    LET balance0 == s.tokenBalance[s.token0][Pair]
        balance1 == s.tokenBalance[s.token1][Pair]
    IN
    IF balance0 < s.reserve0 \/ balance1 < s.reserve1
    THEN Revert(s, ArithmeticPanic)
    ELSE
      LET amount0 == balance0 - s.reserve0
          amount1 == balance1 - s.reserve1
          supply  == s.totalSupply
          first   == supply = 0
      IN
      IF first /\ sqrt(amount0 * amount1) < MINIMUM_LIQUIDITY
      THEN Revert(s, ArithmeticPanic)
      ELSE IF ~first /\ (s.reserve0 = 0 \/ s.reserve1 = 0)
      THEN Revert(s, DivisionPanic)
      ELSE
        LET liquidity ==
                IF first
                THEN sqrt(amount0 * amount1) - MINIMUM_LIQUIDITY
                ELSE min((amount0 * supply) \div s.reserve0,
                         (amount1 * supply) \div s.reserve1)
            s1 == IF first THEN _mint(s, Locked, MINIMUM_LIQUIDITY).st ELSE s
        IN
        IF ~(liquidity > 0)
        THEN Revert(s1, "MockPair: INSUFFICIENT_LIQUIDITY_MINTED")
        ELSE
          LET u == _mint(s1, to, liquidity)
          IN IF ~u.ok THEN u ELSE Return(u.st, << liquidity >>)

(***************************************************************************)
(* mint that locks nothing at address(1) on the first deposit.             *)
(***************************************************************************)
mint_noLock(s, to) ==
    LET balance0 == s.tokenBalance[s.token0][Pair]
        balance1 == s.tokenBalance[s.token1][Pair]
    IN
    IF balance0 < s.reserve0 \/ balance1 < s.reserve1
    THEN Revert(s, ArithmeticPanic)
    ELSE
      LET amount0 == balance0 - s.reserve0
          amount1 == balance1 - s.reserve1
          supply  == s.totalSupply
          first   == supply = 0
      IN
      IF first /\ sqrt(amount0 * amount1) < MINIMUM_LIQUIDITY
      THEN Revert(s, ArithmeticPanic)
      ELSE IF ~first /\ (s.reserve0 = 0 \/ s.reserve1 = 0)
      THEN Revert(s, DivisionPanic)
      ELSE
        LET liquidity ==
                IF first
                THEN sqrt(amount0 * amount1) - MINIMUM_LIQUIDITY
                ELSE min((amount0 * supply) \div s.reserve0,
                         (amount1 * supply) \div s.reserve1)
            s1 == s
        IN
        IF ~(liquidity > 0)
        THEN Revert(s1, "MockPair: INSUFFICIENT_LIQUIDITY_MINTED")
        ELSE
          LET u == _update(_mint(s1, to, liquidity).st, balance0, balance1)
          IN IF ~u.ok THEN u ELSE Return(u.st, << liquidity >>)

(***************************************************************************)
(* mint that treats a deposit as the first one whenever only the locked    *)
(* liquidity is left.                                                      *)
(***************************************************************************)
mint_firstWhenDrained(s, to) ==
    LET balance0 == s.tokenBalance[s.token0][Pair]
        balance1 == s.tokenBalance[s.token1][Pair]
    IN
    IF balance0 < s.reserve0 \/ balance1 < s.reserve1
    THEN Revert(s, ArithmeticPanic)
    ELSE
      LET amount0 == balance0 - s.reserve0
          amount1 == balance1 - s.reserve1
          supply  == s.totalSupply
          first   == supply <= MINIMUM_LIQUIDITY
      IN
      IF first /\ sqrt(amount0 * amount1) < MINIMUM_LIQUIDITY
      THEN Revert(s, ArithmeticPanic)
      ELSE IF ~first /\ (s.reserve0 = 0 \/ s.reserve1 = 0)
      THEN Revert(s, DivisionPanic)
      ELSE
        LET liquidity ==
                IF first
                THEN sqrt(amount0 * amount1) - MINIMUM_LIQUIDITY
                ELSE min((amount0 * supply) \div s.reserve0,
                         (amount1 * supply) \div s.reserve1)
            s1 == IF first THEN _mint(s, Locked, MINIMUM_LIQUIDITY).st ELSE s
        IN
        IF ~(liquidity > 0)
        THEN Revert(s1, "MockPair: INSUFFICIENT_LIQUIDITY_MINTED")
        ELSE
          LET u == _update(_mint(s1, to, liquidity).st, balance0, balance1)
          IN IF ~u.ok THEN u ELSE Return(u.st, << liquidity >>)

(***************************************************************************)
(* mint that credits the whole square root on the first deposit.           *)
(***************************************************************************)
mint_fullRoot(s, to) ==
    LET balance0 == s.tokenBalance[s.token0][Pair]
        balance1 == s.tokenBalance[s.token1][Pair]
    IN
    IF balance0 < s.reserve0 \/ balance1 < s.reserve1
    THEN Revert(s, ArithmeticPanic)
    ELSE
      LET amount0 == balance0 - s.reserve0
          amount1 == balance1 - s.reserve1
          supply  == s.totalSupply
          first   == supply = 0
      IN
      IF first /\ sqrt(amount0 * amount1) < MINIMUM_LIQUIDITY
      THEN Revert(s, ArithmeticPanic)
      ELSE IF ~first /\ (s.reserve0 = 0 \/ s.reserve1 = 0)
      THEN Revert(s, DivisionPanic)
      ELSE
        LET liquidity ==
                IF first
                THEN sqrt(amount0 * amount1)
                ELSE min((amount0 * supply) \div s.reserve0,
                         (amount1 * supply) \div s.reserve1)
            s1 == IF first THEN _mint(s, Locked, MINIMUM_LIQUIDITY).st ELSE s
        IN
        IF ~(liquidity > 0)
        THEN Revert(s1, "MockPair: INSUFFICIENT_LIQUIDITY_MINTED")
        ELSE
          LET u == _update(_mint(s1, to, liquidity).st, balance0, balance1)
          IN IF ~u.ok THEN u ELSE Return(u.st, << liquidity >>)

(***************************************************************************)
(* mint that credits by the ratio of the first token alone.                *)
(***************************************************************************)
mint_firstRatioOnly(s, to) ==
    LET balance0 == s.tokenBalance[s.token0][Pair]
        balance1 == s.tokenBalance[s.token1][Pair]
    IN
    IF balance0 < s.reserve0 \/ balance1 < s.reserve1
    THEN Revert(s, ArithmeticPanic)
    ELSE
      LET amount0 == balance0 - s.reserve0
          amount1 == balance1 - s.reserve1
          supply  == s.totalSupply
          first   == supply = 0
      IN
      IF first /\ sqrt(amount0 * amount1) < MINIMUM_LIQUIDITY
      THEN Revert(s, ArithmeticPanic)
      ELSE IF ~first /\ (s.reserve0 = 0 \/ s.reserve1 = 0)
      THEN Revert(s, DivisionPanic)
      ELSE
        LET liquidity ==
                IF first
                THEN sqrt(amount0 * amount1) - MINIMUM_LIQUIDITY
                ELSE (amount0 * supply) \div s.reserve0
            s1 == IF first THEN _mint(s, Locked, MINIMUM_LIQUIDITY).st ELSE s
        IN
        IF ~(liquidity > 0)
        THEN Revert(s1, "MockPair: INSUFFICIENT_LIQUIDITY_MINTED")
        ELSE
          LET u == _update(_mint(s1, to, liquidity).st, balance0, balance1)
          IN IF ~u.ok THEN u ELSE Return(u.st, << liquidity >>)

(***************************************************************************)
(* MockPair.mint(to): liquidity for what the pair holds above its          *)
(* reserves.                                                               *)
(***************************************************************************)
mint(s, to) ==
    LET balance0 == s.tokenBalance[s.token0][Pair]
        balance1 == s.tokenBalance[s.token1][Pair]
    IN
    IF balance0 < s.reserve0 \/ balance1 < s.reserve1
    THEN Revert(s, ArithmeticPanic)
    ELSE
      LET amount0 == balance0 - s.reserve0
          amount1 == balance1 - s.reserve1
          supply  == s.totalSupply
          first   == supply = 0
      IN
      IF first /\ sqrt(amount0 * amount1) < MINIMUM_LIQUIDITY
      THEN Revert(s, ArithmeticPanic)
      ELSE IF ~first /\ (s.reserve0 = 0 \/ s.reserve1 = 0)
      THEN Revert(s, DivisionPanic)
      ELSE
        LET liquidity ==
                IF first
                THEN sqrt(amount0 * amount1) - MINIMUM_LIQUIDITY
                ELSE min((amount0 * supply) \div s.reserve0,
                         (amount1 * supply) \div s.reserve1)
            s1 == IF first THEN _mint(s, Locked, MINIMUM_LIQUIDITY).st ELSE s
        IN
        IF ~(liquidity > 0)
        THEN Revert(s1, "MockPair: INSUFFICIENT_LIQUIDITY_MINTED")
        ELSE
          LET u == _update(_mint(s1, to, liquidity).st, balance0, balance1)
          IN IF ~u.ok THEN u ELSE Return(u.st, << liquidity >>)

(***************************************************************************)
(* burn that updates the reserves from the balances read before paying out.*)
(***************************************************************************)
burn_staleBalances(s, to) ==
    LET balance0  == s.tokenBalance[s.token0][Pair]
        balance1  == s.tokenBalance[s.token1][Pair]
        liquidity == s.balanceOf[Pair]
        supply    == s.totalSupply
    IN
    IF supply = 0 THEN Revert(s, DivisionPanic)
    ELSE
      LET amount0 == (liquidity * balance0) \div supply
          amount1 == (liquidity * balance1) \div supply
      IN
      IF ~(amount0 > 0 /\ amount1 > 0)
      THEN Revert(s, "MockPair: INSUFFICIENT_LIQUIDITY_BURNED")
      ELSE
        LET b  == _burn(s, Pair, liquidity)
            t0 == erc20Transfer(b.st, s.token0, Pair, to, amount0)
            t1 == erc20Transfer(t0.st, s.token1, Pair, to, amount1)
        IN
        IF ~b.ok THEN b
        ELSE IF ~t0.ok THEN t0
        ELSE IF ~t1.ok THEN t1
        ELSE
          LET u == _update(t1.st, balance0,
                                 balance1)
          IN IF ~u.ok THEN u ELSE Return(u.st, << amount0, amount1 >>)

(***************************************************************************)
(* MockPair.burn with the total supply read after the liquidity tokens were*)
(* burned.                                                                 *)
(***************************************************************************)
burn_supplyAfterBurn(s, to) ==
    LET balance0  == s.tokenBalance[s.token0][Pair]
        balance1  == s.tokenBalance[s.token1][Pair]
        liquidity == s.balanceOf[Pair]
        supply    == s.totalSupply - s.balanceOf[Pair]
    IN
    IF supply = 0 THEN Revert(s, DivisionPanic)
    ELSE
      LET amount0 == (liquidity * balance0) \div supply
          amount1 == (liquidity * balance1) \div supply
      IN
      IF ~(amount0 > 0 /\ amount1 > 0)
      THEN Revert(s, "MockPair: INSUFFICIENT_LIQUIDITY_BURNED")
      ELSE
        LET b  == _burn(s, Pair, liquidity)
            t0 == erc20Transfer(b.st, s.token0, Pair, to, amount0)
            t1 == erc20Transfer(t0.st, s.token1, Pair, to, amount1)
        IN
        IF ~b.ok THEN b
        ELSE IF ~t0.ok THEN t0
        ELSE IF ~t1.ok THEN t1
        ELSE
          LET u == _update(t1.st, t1.st.tokenBalance[s.token0][Pair],
                                 t1.st.tokenBalance[s.token1][Pair])
          IN IF ~u.ok THEN u ELSE Return(u.st, << amount0, amount1 >>)

(***************************************************************************)
(* MockPair.burn that takes the amounts paid out off the old reserves.     *)
(***************************************************************************)
burn_nominalReserves(s, to) ==
    LET balance0  == s.tokenBalance[s.token0][Pair]
        balance1  == s.tokenBalance[s.token1][Pair]
        liquidity == s.balanceOf[Pair]
        supply    == s.totalSupply
    IN
    IF supply = 0 THEN Revert(s, DivisionPanic)
    ELSE
      LET amount0 == (liquidity * balance0) \div supply
          amount1 == (liquidity * balance1) \div supply
      IN
      IF ~(amount0 > 0 /\ amount1 > 0)
      THEN Revert(s, "MockPair: INSUFFICIENT_LIQUIDITY_BURNED")
      ELSE
        LET b  == _burn(s, Pair, liquidity)
            t0 == erc20Transfer(b.st, s.token0, Pair, to, amount0)
            t1 == erc20Transfer(t0.st, s.token1, Pair, to, amount1)
        IN
        IF ~b.ok THEN b
        ELSE IF ~t0.ok THEN t0
        ELSE IF ~t1.ok THEN t1
        ELSE
          LET u == _update(t1.st, s.reserve0 - amount0, s.reserve1 - amount1)
          IN IF ~u.ok THEN u ELSE Return(u.st, << amount0, amount1 >>)

(***************************************************************************)
(* MockPair.burn(to): pays out the pair's own liquidity tokens.            *)
(***************************************************************************)
burn(s, to) ==
    LET balance0  == s.tokenBalance[s.token0][Pair]
        balance1  == s.tokenBalance[s.token1][Pair]
        liquidity == s.balanceOf[Pair]
        supply    == s.totalSupply
    IN
    IF supply = 0 THEN Revert(s, DivisionPanic)
    ELSE
      LET amount0 == (liquidity * balance0) \div supply
          amount1 == (liquidity * balance1) \div supply
      IN
      IF ~(amount0 > 0 /\ amount1 > 0)
      THEN Revert(s, "MockPair: INSUFFICIENT_LIQUIDITY_BURNED")
      ELSE
        LET b  == _burn(s, Pair, liquidity)
            t0 == erc20Transfer(b.st, s.token0, Pair, to, amount0)
            t1 == erc20Transfer(t0.st, s.token1, Pair, to, amount1)
        IN
        IF ~b.ok THEN b
        ELSE IF ~t0.ok THEN t0
        ELSE IF ~t1.ok THEN t1
        ELSE
          LET u == _update(t1.st, t1.st.tokenBalance[s.token0][Pair],
                                 t1.st.tokenBalance[s.token1][Pair])
          IN IF ~u.ok THEN u ELSE Return(u.st, << amount0, amount1 >>)

(***************************************************************************)
(* The address of the n-th contract the factory deploys with new           *)
(* MockPair(): a fresh address each time.  The model follows the inner     *)
(* state of the first pair deployed, Pair; later pairs are registered      *)
(* only.                                                                   *)
(***************************************************************************)
PairAddress(n) == IF n = 0 THEN Pair ELSE Pair \o ToString(n)

(***************************************************************************)
(* MockFactory.createPair that records the pair under (token0, token1)     *)
(* only.                                                                   *)
(***************************************************************************)
createPair_oneDirection(s, tokenA, tokenB) ==
    IF tokenA = tokenB THEN Revert(s, "MockFactory: IDENTICAL_ADDRESSES")
    ELSE
      LET t0 == IF Before(tokenA, tokenB) THEN tokenA ELSE tokenB
          t1 == IF Before(tokenA, tokenB) THEN tokenB ELSE tokenA
      IN
      IF t0 = Zero THEN Revert(s, "MockFactory: ZERO_ADDRESS")
      ELSE IF s.getPair[t0][t1] # Zero THEN Revert(s, "MockFactory: PAIR_EXISTS")
      ELSE
        LET pair == PairAddress(Len(s.allPairs)) IN
        IF pair = Pair /\ ~(s.token0 = Zero /\ s.token1 = Zero)
        THEN Revert(s, "MockPair: ALREADY_INITIALIZED")
        ELSE Return([s EXCEPT !.token0 = IF pair = Pair THEN t0 ELSE @,
                              !.token1 = IF pair = Pair THEN t1 ELSE @,
                              !.getPair[t0][t1] = pair,
                              !.allPairs = Append(@, pair)],
                    << pair >>)

(***************************************************************************)
(* MockFactory.createPair without the test of token0 against the zero      *)
(* address.                                                                *)
(***************************************************************************)
createPair_zeroAddressAllowed(s, tokenA, tokenB) ==
    IF tokenA = tokenB THEN Revert(s, "MockFactory: IDENTICAL_ADDRESSES")
    ELSE
      LET t0 == IF Before(tokenA, tokenB) THEN tokenA ELSE tokenB
          t1 == IF Before(tokenA, tokenB) THEN tokenB ELSE tokenA
      IN
      IF s.getPair[t0][t1] # Zero THEN Revert(s, "MockFactory: PAIR_EXISTS")
      ELSE
        LET pair == PairAddress(Len(s.allPairs)) IN
        IF pair = Pair /\ ~(s.token0 = Zero /\ s.token1 = Zero)
        THEN Revert(s, "MockPair: ALREADY_INITIALIZED")
        ELSE Return([s EXCEPT !.token0 = IF pair = Pair THEN t0 ELSE @,
                              !.token1 = IF pair = Pair THEN t1 ELSE @,
                              !.getPair[t0][t1] = pair,
                              !.getPair[t1][t0] = pair,
                              !.allPairs = Append(@, pair)],
                    << pair >>)

(***************************************************************************)
(* MockFactory.createPair, with MockPair.initialize.                       *)
(***************************************************************************)
createPair(s, tokenA, tokenB) ==
    IF tokenA = tokenB THEN Revert(s, "MockFactory: IDENTICAL_ADDRESSES")
    ELSE
      LET t0 == IF Before(tokenA, tokenB) THEN tokenA ELSE tokenB
          t1 == IF Before(tokenA, tokenB) THEN tokenB ELSE tokenA
      IN
      IF t0 = Zero THEN Revert(s, "MockFactory: ZERO_ADDRESS")
      ELSE IF s.getPair[t0][t1] # Zero THEN Revert(s, "MockFactory: PAIR_EXISTS")
      ELSE
        LET pair == PairAddress(Len(s.allPairs)) IN
        IF pair = Pair /\ ~(s.token0 = Zero /\ s.token1 = Zero)
        THEN Revert(s, "MockPair: ALREADY_INITIALIZED")
        ELSE Return([s EXCEPT !.token0 = IF pair = Pair THEN t0 ELSE @,
                              !.token1 = IF pair = Pair THEN t1 ELSE @,
                              !.getPair[t0][t1] = pair,
                              !.getPair[t1][t0] = pair,
                              !.allPairs = Append(@, pair)],
                    << pair >>)

(***************************************************************************)
(* _calculateLiquidityAmounts without the test of amountBOptimal against   *)
(* amountBMin.                                                             *)
(***************************************************************************)
_calculateLiquidityAmounts_noBMin(s, tokenA, tokenB, amountADesired, amountBDesired, amountAMin, amountBMin) ==
    IF s.getPair[tokenA][tokenB] = Zero
    THEN Return(s, << amountADesired, amountBDesired >>)
    ELSE
      LET first    == IF Before(tokenA, tokenB) THEN tokenA ELSE tokenB
          reserveA == IF tokenA = first THEN s.reserve0 ELSE s.reserve1
          reserveB == IF tokenA = first THEN s.reserve1 ELSE s.reserve0
      IN
      IF reserveA = 0 /\ reserveB = 0
      THEN Return(s, << amountADesired, amountBDesired >>)
      ELSE IF reserveA = 0 THEN Revert(s, DivisionPanic)
      ELSE
        LET amountBOptimal == (amountADesired * reserveB) \div reserveA IN
        IF amountBOptimal <= amountBDesired
        THEN IF FALSE
             THEN Revert(s, "MockRouter: INSUFFICIENT_B_AMOUNT")
             ELSE Return(s, << amountADesired, amountBOptimal >>)
        ELSE IF reserveB = 0 THEN Revert(s, DivisionPanic)
        ELSE
          LET amountAOptimal == (amountBDesired * reserveA) \div reserveB IN
          IF ~(amountAOptimal <= amountADesired)
          THEN Revert(s, "MockRouter: INVALID_AMOUNT")
          ELSE IF ~(amountAOptimal >= amountAMin)
          THEN Revert(s, "MockRouter: INSUFFICIENT_A_AMOUNT")
          ELSE Return(s, << amountAOptimal, amountBDesired >>)

(***************************************************************************)
(* _calculateLiquidityAmounts without the test of amountAMin.              *)
(***************************************************************************)
_calculateLiquidityAmounts_noAMin(s, tokenA, tokenB, amountADesired, amountBDesired, amountAMin, amountBMin) ==
    IF s.getPair[tokenA][tokenB] = Zero
    THEN Return(s, << amountADesired, amountBDesired >>)
    ELSE
      LET first    == IF Before(tokenA, tokenB) THEN tokenA ELSE tokenB
          reserveA == IF tokenA = first THEN s.reserve0 ELSE s.reserve1
          reserveB == IF tokenA = first THEN s.reserve1 ELSE s.reserve0
      IN
      IF reserveA = 0 /\ reserveB = 0
      THEN Return(s, << amountADesired, amountBDesired >>)
      ELSE IF reserveA = 0 THEN Revert(s, DivisionPanic)
      ELSE
        LET amountBOptimal == (amountADesired * reserveB) \div reserveA IN
        IF amountBOptimal <= amountBDesired
        THEN IF ~(amountBOptimal >= amountBMin)
             THEN Revert(s, "MockRouter: INSUFFICIENT_B_AMOUNT")
             ELSE Return(s, << amountADesired, amountBOptimal >>)
        ELSE IF reserveB = 0 THEN Revert(s, DivisionPanic)
        ELSE
          LET amountAOptimal == (amountBDesired * reserveA) \div reserveB IN
          IF ~(amountAOptimal <= amountADesired)
          THEN Revert(s, "MockRouter: INVALID_AMOUNT")
          ELSE Return(s, << amountAOptimal, amountBDesired >>)

(***************************************************************************)
(* MockRouter._calculateLiquidityAmounts: the amounts that keep the ratio  *)
(* of the reserves.                                                        *)
(***************************************************************************)
_calculateLiquidityAmounts(s, tokenA, tokenB, amountADesired, amountBDesired, amountAMin, amountBMin) ==
    IF s.getPair[tokenA][tokenB] = Zero
    THEN Return(s, << amountADesired, amountBDesired >>)
    ELSE
      LET first    == IF Before(tokenA, tokenB) THEN tokenA ELSE tokenB
          reserveA == IF tokenA = first THEN s.reserve0 ELSE s.reserve1
          reserveB == IF tokenA = first THEN s.reserve1 ELSE s.reserve0
      IN
      IF reserveA = 0 /\ reserveB = 0
      THEN Return(s, << amountADesired, amountBDesired >>)
      ELSE IF reserveA = 0 THEN Revert(s, DivisionPanic)
      ELSE
        LET amountBOptimal == (amountADesired * reserveB) \div reserveA IN
        IF amountBOptimal <= amountBDesired
        THEN IF ~(amountBOptimal >= amountBMin)
             THEN Revert(s, "MockRouter: INSUFFICIENT_B_AMOUNT")
             ELSE Return(s, << amountADesired, amountBOptimal >>)
        ELSE IF reserveB = 0 THEN Revert(s, DivisionPanic)
        ELSE
          LET amountAOptimal == (amountBDesired * reserveA) \div reserveB IN
          IF ~(amountAOptimal <= amountADesired)
          THEN Revert(s, "MockRouter: INVALID_AMOUNT")
          ELSE IF ~(amountAOptimal >= amountAMin)
          THEN Revert(s, "MockRouter: INSUFFICIENT_A_AMOUNT")
          ELSE Return(s, << amountAOptimal, amountBDesired >>)

(***************************************************************************)
(* MockRouter.addLiquidity.                                                *)
(***************************************************************************)
addLiquidity(s, sender, tokenA, tokenB, amountADesired, amountBDesired, amountAMin, amountBMin, to, deadline) ==
    IF ~(deadline >= s.now) THEN Revert(s, "MockRouter: EXPIRED")
    ELSE
      LET p == IF s.getPair[tokenA][tokenB] = Zero
               THEN createPair(s, tokenA, tokenB)
               ELSE Return(s, << s.getPair[tokenA][tokenB] >>)
      IN
      IF ~p.ok THEN p
      ELSE
        LET c == _calculateLiquidityAmounts(p.st, tokenA, tokenB, amountADesired,
                                            amountBDesired, amountAMin, amountBMin)
        IN
        IF ~c.ok THEN c
        ELSE
          LET amountA == c.ret[1]
              amountB == c.ret[2]
              ta == erc20TransferFrom(c.st, tokenA, sender, Pair, amountA)
              tb == erc20TransferFrom(ta.st, tokenB, sender, Pair, amountB)
              m  == mint(tb.st, to)
          IN
          IF ~ta.ok THEN ta
          ELSE IF ~tb.ok THEN tb
          ELSE IF ~m.ok THEN m
          ELSE Return(m.st, << amountA, amountB, m.ret[1] >>)

(***************************************************************************)
(* MockRouter.removeLiquidity.                                             *)
(***************************************************************************)
removeLiquidity(s, sender, tokenA, tokenB, liquidity, amountAMin, amountBMin, to, deadline) ==
    IF ~(deadline >= s.now) THEN Revert(s, "MockRouter: EXPIRED")
    ELSE IF s.getPair[tokenA][tokenB] = Zero
    THEN Revert(s, "MockRouter: PAIR_NOT_FOUND")
    ELSE
      LET t == lpTransferFrom(s, sender, Pair, liquidity)
          b == burn(t.st, to)
      IN
      IF ~t.ok THEN t
      ELSE IF ~b.ok THEN b
      ELSE
        LET first   == IF Before(tokenA, tokenB) THEN tokenA ELSE tokenB
            amountA == IF tokenA = first THEN b.ret[1] ELSE b.ret[2]
            amountB == IF tokenA = first THEN b.ret[2] ELSE b.ret[1]
        IN
        IF ~(amountA >= amountAMin)
        THEN Revert(b.st, "MockRouter: INSUFFICIENT_A_AMOUNT")
        ELSE IF ~(amountB >= amountBMin)
        THEN Revert(b.st, "MockRouter: INSUFFICIENT_B_AMOUNT")
        ELSE Return(b.st, << amountA, amountB >>)

(***************************************************************************)
(* getAmountOut with the division rounded up.                              *)
(***************************************************************************)
getAmountOut_roundsUp(amountIn, reserveIn, reserveOut) ==
    IF ~(amountIn > 0) THEN Revert(<< >>, "MockRouter: INSUFFICIENT_INPUT_AMOUNT")
    ELSE IF ~(reserveIn > 0 /\ reserveOut > 0)
    THEN Revert(<< >>, "MockRouter: INSUFFICIENT_LIQUIDITY")
    ELSE
      LET amountInWithFee == amountIn * 997
          numerator       == amountInWithFee * reserveOut
          denominator     == (reserveIn * 1000) + amountInWithFee
      IN Return(<< >>, << (numerator + denominator - 1) \div denominator >>)

(***************************************************************************)
(* getAmountOut without the fee.                                           *)
(***************************************************************************)
getAmountOut_noFee(amountIn, reserveIn, reserveOut) ==
    IF ~(amountIn > 0) THEN Revert(<< >>, "MockRouter: INSUFFICIENT_INPUT_AMOUNT")
    ELSE IF ~(reserveIn > 0 /\ reserveOut > 0)
    THEN Revert(<< >>, "MockRouter: INSUFFICIENT_LIQUIDITY")
    ELSE
      LET amountInWithFee == amountIn * 1000
          numerator       == amountInWithFee * reserveOut
          denominator     == (reserveIn * 1000) + amountInWithFee
      IN Return(<< >>, << numerator \div denominator >>)

(***************************************************************************)
(* MockRouter.getAmountOut: the constant-product quote with the 0.3% fee.  *)
(* A pure function: it has no state to hand back.                          *)
(***************************************************************************)
getAmountOut(amountIn, reserveIn, reserveOut) ==
    IF ~(amountIn > 0) THEN Revert(<< >>, "MockRouter: INSUFFICIENT_INPUT_AMOUNT")
    ELSE IF ~(reserveIn > 0 /\ reserveOut > 0)
    THEN Revert(<< >>, "MockRouter: INSUFFICIENT_LIQUIDITY")
    ELSE
      LET amountInWithFee == amountIn * 997
          numerator       == amountInWithFee * reserveOut
          denominator     == (reserveIn * 1000) + amountInWithFee
      IN Return(<< >>, << numerator \div denominator >>)

(***************************************************************************)
(* MockRouter.getAmountsOut: the quote chained along a path.  amounts      *)
(* holds the entries computed so far.                                      *)
(***************************************************************************)
RECURSIVE amountsAlong(_, _, _)
amountsAlong(s, path, amounts) ==
    LET i == Len(amounts) IN
    IF ~(i < Len(path)) THEN Return(s, amounts)
    ELSE IF s.getPair[path[i]][path[i + 1]] = Zero
    THEN Revert(s, "MockRouter: PAIR_NOT_FOUND")
    ELSE
      LET first      == IF Before(path[i], path[i + 1]) THEN path[i] ELSE path[i + 1]
          reserveIn  == IF path[i] = first THEN s.reserve0 ELSE s.reserve1
          reserveOut == IF path[i] = first THEN s.reserve1 ELSE s.reserve0
          q == getAmountOut(amounts[i], reserveIn, reserveOut)
      IN IF ~q.ok THEN Revert(s, q.err)
         ELSE amountsAlong(s, path, Append(amounts, q.ret[1]))

getAmountsOut(s, amountIn, path) ==
    IF ~(Len(path) >= 2) THEN Revert(s, "MockRouter: INVALID_PATH")
    ELSE amountsAlong(s, path, << amountIn >>)

(***************************************************************************)
(* ERC20.approve on the pair: owner lets the router move its liquidity     *)
(* tokens.                                                                 *)
(***************************************************************************)
lpApprove(s, owner, value) ==
    Return([s EXCEPT !.routerAllowance[LP][owner] = value], << TRUE >>)

(***************************************************************************)
(* swap(amountIn, assetIn): the trade against the pool.  The caller pays   *)
(* amountIn of assetIn into the pool and receives the quoted amount of     *)
(* the other asset; amountIn is added to the reserve of assetIn and the    *)
(* quoted amount removed from the other reserve.                           *)
(***************************************************************************)
swap(s, sender, amountIn, assetIn) ==
    LET assetOut   == IF assetIn = s.token0 THEN s.token1 ELSE s.token0
        reserveIn  == IF assetIn = s.token0 THEN s.reserve0 ELSE s.reserve1
        reserveOut == IF assetIn = s.token0 THEN s.reserve1 ELSE s.reserve0
        q          == getAmountOut(amountIn, reserveIn, reserveOut)
    IN
    IF ~q.ok THEN Revert(s, q.err)
    ELSE
      LET amountOut == q.ret[1]
          paid == erc20Transfer(s, assetIn, sender, Pair, amountIn)
          got  == erc20Transfer(paid.st, assetOut, Pair, sender, amountOut)
      IN
      IF ~paid.ok THEN paid
      ELSE IF ~got.ok THEN got
      ELSE Return([got.st EXCEPT
                      !.reserve0 = IF assetIn = s.token0 THEN @ + amountIn
                                                        ELSE @ - amountOut,
                      !.reserve1 = IF assetIn = s.token0 THEN @ - amountOut
                                                        ELSE @ + amountIn],
                  << amountOut >>)

(***************************************************************************)
(* The exchange as a state machine.  Two providers hold PoolMinted of each *)
(* token and have approved the router for all of it, as the test fixture   *)
(* does (src/test/MockPancakeSwapContracts.test.js); amounts are in units  *)
(* that keep MINIMUM_LIQUIDITY exact.                                      *)
(***************************************************************************)
MaxPoolSteps == 4

PoolMinted == 3 * MINIMUM_LIQUIDITY
RouterUsers == { "alice" }    \* who lets the router move its liquidity tokens
DirectUsers == { "bob" }      \* who calls tokens and pair past the router
PairArgs == { << "SWAT", "BUSD" >>, << "BUSD", "SWAT" >> }
BadPairArgs == { << "SWAT", "SWAT" >>, << Zero, "SWAT" >> }
DepositChoices ==    \* amountADesired, amountBDesired, amountAMin, amountBMin
    { << 1400, 1400, 0, 0 >>, << 200, 100, 0, 0 >>, << 200, 200, 200, 200 >> }
LiquidityChoices == { 0, 400 }
TransferAmounts == { 10 }
SwapAmounts == { 0, 10 }

\* the liquidity the deposit executed last has minted
JustMinted ==
    IF last.op = "addLiquidity" /\ last.err = "ok" THEN { ret[3] } ELSE {}

PoolCall(op, sender, values) ==
    [ op |-> op, sender |-> sender, args |-> values, err |-> "ok" ]

PoolInit ==
    /\ now = StartTime
    /\ offers = Deployed(OfferIds, 0, 0).offers
    /\ offerIdCounter = 0
    /\ offerExpiryTime = DEFAULT_EXPIRY_TIME
    /\ lastOfferTime = Deployed(OfferIds, 0, 0).lastOfferTime
    /\ dailyOfferCount = Deployed(OfferIds, 0, 0).dailyOfferCount
    /\ paused = FALSE
    /\ bal = Deployed(OfferIds, 0, 0).bal
    /\ allowance = Deployed(OfferIds, 0, 0).allowance
    /\ status = Deployed(OfferIds, 0, 0).status
    /\ paidOut = Deployed(OfferIds, 0, 0).paidOut
    /\ withdrawn = Deployed(OfferIds, 0, 0).withdrawn
    /\ last = NoCall
    /\ race = NoRace
    /\ PoolDeployed(PoolMinted, PoolMinted)
    /\ swat = SWATTokenDeployed
    /\ frame = NoFrame
    /\ args = << >>

(***************************************************************************)
(* One transaction on the exchange: run the handler, commit or roll back,  *)
(* record the call and what it returned.                                   *)
(***************************************************************************)
PoolExecute(r, call) ==
    LET c == Commit(PoolCur, r) IN
    /\ race.todo = {}
    /\ last.err = "ok"
    /\ steps < MaxPoolSteps
    /\ getPair' = c.getPair
    /\ allPairs' = c.allPairs
    /\ token0' = c.token0
    /\ token1' = c.token1
    /\ reserve0' = c.reserve0
    /\ reserve1' = c.reserve1
    /\ totalSupply' = c.totalSupply
    /\ balanceOf' = c.balanceOf
    /\ tokenBalance' = c.tokenBalance
    /\ routerAllowance' = c.routerAllowance
    /\ ret' = IF r.ok THEN r.ret ELSE NoReturn
    /\ steps' = IF r.ok /\ call.op # "approve" THEN steps + 1 ELSE steps
    /\ last' = [call EXCEPT !.err = r.err]
    /\ UNCHANGED << now, offers, offerIdCounter, offerExpiryTime, lastOfferTime,
                    dailyOfferCount, paused, bal, allowance, status, paidOut,
                    withdrawn, race, args, swat, frame >>

CreatePair(sender, tokenA, tokenB) ==
    PoolExecute(createPair(PoolCur, tokenA, tokenB),
                PoolCall("createPair", sender, << tokenA, tokenB >>))

AddLiquidity(sender, tokenA, tokenB, amountADesired, amountBDesired, amountAMin, amountBMin, deadline) ==
    PoolExecute(addLiquidity(PoolCur, sender, tokenA, tokenB, amountADesired,
                             amountBDesired, amountAMin, amountBMin, sender, deadline),
                PoolCall("addLiquidity", sender,
                         << tokenA, tokenB, amountADesired, amountBDesired,
                            amountAMin, amountBMin, sender, deadline >>))

RemoveLiquidity(sender, tokenA, tokenB, liquidity, deadline) ==
    PoolExecute(removeLiquidity(PoolCur, sender, tokenA, tokenB, liquidity,
                                0, 0, sender, deadline),
                PoolCall("removeLiquidity", sender,
                         << tokenA, tokenB, liquidity, 0, 0, sender, deadline >>))

\* pair.approve(router, type(uint256).max)
ApproveRouter(sender) ==
    /\ getPair["SWAT"]["BUSD"] # Zero
    /\ PoolExecute(lpApprove(PoolCur, sender, Unlimited),
                   PoolCall("approve", sender, << LP, Unlimited >>))

\* token.transfer(pair, amount): a transfer on the ledger, past the router
TransferToPair(sender, token, amount) ==
    /\ getPair["SWAT"]["BUSD"] # Zero
    /\ PoolExecute(erc20Transfer(PoolCur, token, sender, Pair, amount),
                   PoolCall("transfer", sender, << token, Pair, amount >>))

\* pair.transfer(pair, amount): liquidity tokens sent to the pair directly
TransferSharesToPair(sender, amount) ==
    /\ getPair["SWAT"]["BUSD"] # Zero
    /\ PoolExecute(lpTransfer(PoolCur, sender, Pair, amount),
                   PoolCall("transfer", sender, << LP, Pair, amount >>))

\* pair.mint(to) and pair.burn(to) called directly
Mint(sender) ==
    /\ getPair["SWAT"]["BUSD"] # Zero
    /\ PoolExecute(mint(PoolCur, sender), PoolCall("mint", sender, << sender >>))

Burn(sender) ==
    /\ getPair["SWAT"]["BUSD"] # Zero
    /\ PoolExecute(burn(PoolCur, sender), PoolCall("burn", sender, << sender >>))

Swap(sender, amountIn, assetIn) ==
    PoolExecute(swap(PoolCur, sender, amountIn, assetIn),
                PoolCall("swap", sender, << amountIn, assetIn >>))

PoolNext ==
    \/ \E sender \in Providers :
         \/ \E p \in BadPairArgs : CreatePair(sender, p[1], p[2])
         \/ \E p \in PairArgs : CreatePair(sender, p[1], p[2])
         \/ \E p \in PairArgs, d \in DepositChoices :
              AddLiquidity(sender, p[1], p[2], d[1], d[2], d[3], d[4], StartTime)
         \/ AddLiquidity(sender, "SWAT", "BUSD", 1400, 1400, 0, 0, StartTime - 1)
         \/ \E p \in PairArgs, liquidity \in LiquidityChoices \cup JustMinted :
              RemoveLiquidity(sender, p[1], p[2], liquidity, StartTime)
    \/ \E sender \in RouterUsers : ApproveRouter(sender)
    \/ \E sender \in DirectUsers :
         \/ \E token \in Tokens, amount \in TransferAmounts :
              TransferToPair(sender, token, amount)
         \/ \E amount \in TransferAmounts : TransferSharesToPair(sender, amount)
         \/ Mint(sender)
         \/ Burn(sender)
         \/ \E amountIn \in SwapAmounts, assetIn \in Tokens :
              Swap(sender, amountIn, assetIn)
    \/ Discard

SpecPool == PoolInit /\ [][PoolNext]_vars

PoolTypeOK ==
    /\ token0 \in PairTokens \cup {Zero}
    /\ token1 \in PairTokens \cup {Zero}
    /\ reserve0 \in Nat
    /\ reserve1 \in Nat
    /\ totalSupply \in Nat
    /\ \A h \in ShareHolders : balanceOf[h] \in Nat
    /\ \A t \in Tokens : \A h \in TokenHolders : tokenBalance[t][h] \in Nat
    /\ steps \in 0..MaxPoolSteps

(***************************************************************************)
(* Inputs for the quote taken as a pure function: amountIn, reserveIn,     *)
(* reserveOut.                                                             *)
(***************************************************************************)
QuoteInputs ==
    { 0, 1, 10, 997, 1000 } \X { 0, 1, 140, 1000, 1400 } \X { 0, 1, 140, 1000, 1400 }

(***************************************************************************)
(* C18: for amountIn > 0 and positive reserves, adding amountIn to          *)
(* reserveIn and removing the quoted amountOut from reserveOut does not    *)
(* decrease the product of the reserves, and amountOut < reserveOut; in    *)
(* any run of deposits, withdrawals and swaps the product of the reserves  *)
(* after a swap is at least the product before it.                         *)
(***************************************************************************)
C18_Quoted ==
    \A q \in QuoteInputs :
      (q[1] > 0 /\ q[2] > 0 /\ q[3] > 0) =>
        LET r == getAmountOut(q[1], q[2], q[3]) IN
        /\ r.ok
        /\ r.ret[1] < q[3]
        /\ (q[2] + q[1]) * (q[3] - r.ret[1]) >= q[2] * q[3]

C18_Step ==
    (last'.op = "swap" /\ last'.err = "ok" /\ steps' = steps + 1) =>
      LET amountIn   == last'.args[1]
          inIs0      == last'.args[2] = token0
          reserveIn  == IF inIs0 THEN reserve0 ELSE reserve1
          reserveOut == IF inIs0 THEN reserve1 ELSE reserve0
          amountOut  == ret'[1]
      IN
      /\ amountIn > 0 /\ reserveIn > 0 /\ reserveOut > 0
      /\ amountOut = getAmountOut(amountIn, reserveIn, reserveOut).ret[1]
      /\ amountOut < reserveOut
      /\ (IF inIs0 THEN reserve0' ELSE reserve1') = reserveIn + amountIn
      /\ (IF inIs0 THEN reserve1' ELSE reserve0') = reserveOut - amountOut
      /\ reserve0' * reserve1' >= reserve0 * reserve1

C18_ProductNeverDecreases == []C18_Quoted /\ [][C18_Step]_vars

\* a swap of 10 against reserves (1400, 1400) that were deposited before
C18_Witness ==
    /\ last.op = "swap"
    /\ last.err = "ok"
    /\ ret = << 9 >>
    /\ { reserve0, reserve1 } = { 1410, 1391 }
    /\ totalSupply = 1400

(***************************************************************************)
(* The quote as a pure function: the inputs are drawn at the start, the    *)
(* one call applies MockRouter.getAmountOut to them.                       *)
(***************************************************************************)
QuoteInit ==
    /\ now = StartTime
    /\ offers = Deployed(OfferIds, 0, 0).offers
    /\ offerIdCounter = 0
    /\ offerExpiryTime = DEFAULT_EXPIRY_TIME
    /\ lastOfferTime = Deployed(OfferIds, 0, 0).lastOfferTime
    /\ dailyOfferCount = Deployed(OfferIds, 0, 0).dailyOfferCount
    /\ paused = FALSE
    /\ bal = Deployed(OfferIds, 0, 0).bal
    /\ allowance = Deployed(OfferIds, 0, 0).allowance
    /\ status = Deployed(OfferIds, 0, 0).status
    /\ paidOut = Deployed(OfferIds, 0, 0).paidOut
    /\ withdrawn = Deployed(OfferIds, 0, 0).withdrawn
    /\ last = NoCall
    /\ race = NoRace
    /\ PoolDeployed(PoolMinted, PoolMinted)
    /\ swat = SWATTokenDeployed
    /\ frame = NoFrame
    /\ args \in QuoteInputs

GetAmountOut ==
    LET r == getAmountOut(args[1], args[2], args[3]) IN
    /\ last.err = "ok"
    /\ ret' = IF r.ok THEN r.ret ELSE NoReturn
    /\ last' = [PoolCall("getAmountOut", Zero, args) EXCEPT !.err = r.err]
    /\ UNCHANGED << now, offers, offerIdCounter, offerExpiryTime, lastOfferTime,
                    dailyOfferCount, paused, bal, allowance, status, paidOut,
                    withdrawn, race, getPair, allPairs, token0, token1, reserve0,
                    reserve1, totalSupply, balanceOf, tokenBalance,
                    routerAllowance, steps, args, swat, frame >>

QuoteNext == GetAmountOut \/ Discard

SpecQuote == QuoteInit /\ [][QuoteNext]_vars

(***************************************************************************)
(* C19: for amountIn > 0 and positive reserves the quote is                *)
(* floor(amountIn*997*reserveOut / (reserveIn*1000 + amountIn*997)), one   *)
(* truncating division (9 for reserves (140,140) and amountIn 10); the     *)
(* quote fails with INSUFFICIENT_INPUT_AMOUNT when amountIn is 0, and with *)
(* INSUFFICIENT_LIQUIDITY when amountIn > 0 and a reserve is 0.            *)
(***************************************************************************)
C19_Quote ==
    last.op = "getAmountOut" =>
      LET amountIn    == args[1]
          reserveIn   == args[2]
          reserveOut  == args[3]
          numerator   == amountIn * 997 * reserveOut
          denominator == reserveIn * 1000 + amountIn * 997
      IN
      /\ last.args = args
      /\ (amountIn > 0 /\ reserveIn > 0 /\ reserveOut > 0) =>
           /\ last.err = "ok"
           /\ Len(ret) = 1
           /\ ret[1] \in Nat
           /\ ret[1] * denominator <= numerator
           /\ numerator < (ret[1] + 1) * denominator
      /\ amountIn = 0 => last.err = "MockRouter: INSUFFICIENT_INPUT_AMOUNT"
      /\ (amountIn > 0 /\ (reserveIn = 0 \/ reserveOut = 0)) =>
           last.err = "MockRouter: INSUFFICIENT_LIQUIDITY"
      /\ last.err # "ok" => ret = NoReturn
      /\ args = << 10, 140, 140 >> => ret = << 9 >>

C19_Witness ==
    /\ last.op = "getAmountOut"
    /\ last.err = "ok"
    /\ args = << 10, 140, 140 >>
    /\ ret = << 9 >>

(***************************************************************************)
(* C20: in every state reached by pair creations, deposits, withdrawals    *)
(* and direct transfers to the pair, the pool is either empty or fully     *)
(* initialized: reserve0 = 0 iff reserve1 = 0 iff totalSupply = 0.         *)
(***************************************************************************)
C20_EmptyOrInitialized ==
    /\ reserve0 = 0 <=> reserve1 = 0
    /\ reserve1 = 0 <=> totalSupply = 0

\* a provider has withdrawn all it could: only the locked minimum is left
C20_Witness ==
    /\ last.op = "removeLiquidity"
    /\ last.err = "ok"
    /\ totalSupply = MINIMUM_LIQUIDITY
    /\ balanceOf[Locked] = MINIMUM_LIQUIDITY
    /\ reserve0 > 0
    /\ reserve1 > 0

(***************************************************************************)
(* C21: after the first successful deposit MINIMUM_LIQUIDITY liquidity     *)
(* tokens are held by address(1), and no deposit or withdrawal ever        *)
(* lowers that balance; so totalSupply >= MINIMUM_LIQUIDITY and both       *)
(* reserves are strictly positive from then on.                            *)
(***************************************************************************)
C21_Locked ==
    totalSupply > 0 =>
      /\ balanceOf[Locked] = MINIMUM_LIQUIDITY
      /\ totalSupply >= MINIMUM_LIQUIDITY
      /\ reserve0 > 0
      /\ reserve1 > 0

C21_Step ==
    /\ balanceOf'[Locked] >= balanceOf[Locked]
    /\ (totalSupply = 0 /\ totalSupply' > 0) =>
         /\ last'.op \in { "addLiquidity", "mint" }
         /\ balanceOf'[Locked] = MINIMUM_LIQUIDITY

C21_MinimumLiquidityLocked == []C21_Locked /\ [][C21_Step]_vars

\* liquidity tokens sent to the pair and burned there; the locked ones stay
C21_Witness ==
    /\ last.op = "burn"
    /\ last.err = "ok"
    /\ balanceOf[Locked] = MINIMUM_LIQUIDITY
    /\ totalSupply = MINIMUM_LIQUIDITY + 390
    /\ reserve0 = 1390
    /\ reserve1 = 1390

(***************************************************************************)
(* C22 as stated: an initialized pool can return to the empty state by     *)
(* withdrawals of its share holders.  Once every holder that can withdraw  *)
(* has withdrawn all its liquidity tokens, reserves and totalSupply would  *)
(* be zero.                                                                *)
(***************************************************************************)
C22_ReturnsToEmpty ==
    ( /\ last.op \in { "removeLiquidity", "burn" }
      /\ last.err = "ok"
      /\ \A h \in Providers \cup {Pair} : balanceOf[h] = 0 )
    => (reserve0 = 0 /\ reserve1 = 0 /\ totalSupply = 0)

(***************************************************************************)
(* C22, amended: a pair is never deleted and, once initialized, never      *)
(* returns to the empty state.  The registered pair and its tokens stay;   *)
(* totalSupply stays positive; when the holders have withdrawn everything  *)
(* exactly MINIMUM_LIQUIDITY is left; and a later deposit is a subsequent  *)
(* deposit: it locks nothing more and mints the smaller of the two         *)
(* proportional amounts.                                                   *)
(***************************************************************************)
C22_Drained ==
    (totalSupply > 0 /\ \A h \in Providers \cup {Pair} : balanceOf[h] = 0)
    => (totalSupply = MINIMUM_LIQUIDITY /\ reserve0 > 0 /\ reserve1 > 0)

C22_Step ==
    /\ \A a, b \in PairTokens : getPair[a][b] # Zero => getPair'[a][b] = getPair[a][b]
    /\ SubSeq(allPairs', 1, Len(allPairs)) = allPairs
    /\ token0 # Zero => (token0' = token0 /\ token1' = token1)
    /\ totalSupply > 0 => totalSupply' > 0
    /\ (totalSupply > 0 /\ totalSupply' > totalSupply) =>
         /\ last'.op \in { "addLiquidity", "mint" }
         /\ balanceOf'[Locked] = balanceOf[Locked]
         /\ totalSupply' - totalSupply =
              min(((tokenBalance'[token0][Pair] - reserve0) * totalSupply) \div reserve0,
                  ((tokenBalance'[token1][Pair] - reserve1) * totalSupply) \div reserve1)

C22_NeverEmptyAgain == []C22_Drained /\ [][C22_Step]_vars

\* a deposit into the pool its only provider had left
C22_Witness ==
    /\ last.op = "addLiquidity"
    /\ last.err = "ok"
    /\ ret = << 200, 200, 200 >>
    /\ totalSupply = MINIMUM_LIQUIDITY + 200
    /\ balanceOf[Locked] = MINIMUM_LIQUIDITY
    /\ reserve0 = 1200
    /\ reserve1 = 1200

(***************************************************************************)
(* C23 as stated: a successful deposit into an empty pool takes the        *)
(* desired amounts and credits floor(sqrt(amountA * amountB)) -            *)
(* MINIMUM_LIQUIDITY liquidity tokens, with the reserves set to the        *)
(* amounts when the pair held no balance before.                           *)
(***************************************************************************)
C23_FirstDepositByAmounts ==
    (totalSupply = 0 /\ last'.op = "addLiquidity" /\ last'.err = "ok" /\ steps' = steps + 1) =>
      LET tokenA  == last'.args[1]
          tokenB  == last'.args[2]
          amountA == last'.args[3]
          amountB == last'.args[4]
          root    == ret'[3] + MINIMUM_LIQUIDITY
      IN
      /\ ret'[1] = amountA
      /\ ret'[2] = amountB
      /\ ret'[3] > 0
      /\ root * root <= amountA * amountB
      /\ amountA * amountB < (root + 1) * (root + 1)
      /\ (tokenBalance[tokenA][Pair] = 0 /\ tokenBalance[tokenB][Pair] = 0) =>
           { reserve0', reserve1' } = { amountA, amountB }

C23_OriginalClaim == [][C23_FirstDepositByAmounts]_vars

(***************************************************************************)
(* C23, amended: a deposit into an empty pool takes the desired amounts    *)
(* and credits floor(sqrt(balanceA * balanceB)) - MINIMUM_LIQUIDITY, the   *)
(* balances being what the pair holds after the transfer (the amounts      *)
(* themselves when it held nothing before); the reserves become those      *)
(* balances; the deposit fails with nothing changed when that value is     *)
(* not positive.                                                           *)
(***************************************************************************)
C23_Step ==
    (totalSupply = 0 /\ last'.op = "addLiquidity" /\ last' # last) =>
      LET sender   == last'.sender
          tokenA   == last'.args[1]
          tokenB   == last'.args[2]
          amountA  == last'.args[3]
          amountB  == last'.args[4]
          balanceA == tokenBalance[tokenA][Pair] + amountA
          balanceB == tokenBalance[tokenB][Pair] + amountB
          least    == (MINIMUM_LIQUIDITY + 1) * (MINIMUM_LIQUIDITY + 1)
      IN
      IF last'.err = "ok"
      THEN LET root == ret'[3] + MINIMUM_LIQUIDITY IN
           /\ ret'[1] = amountA
           /\ ret'[2] = amountB
           /\ ret'[3] > 0
           /\ balanceA * balanceB >= least
           /\ root * root <= balanceA * balanceB
           /\ balanceA * balanceB < (root + 1) * (root + 1)
           /\ balanceOf'[sender] = balanceOf[sender] + ret'[3]
           /\ tokenBalance'[tokenA][sender] = tokenBalance[tokenA][sender] - amountA
           /\ tokenBalance'[tokenB][sender] = tokenBalance[tokenB][sender] - amountB
           /\ tokenBalance'[tokenA][Pair] = balanceA
           /\ tokenBalance'[tokenB][Pair] = balanceB
           /\ reserve0' = tokenBalance'[token0'][Pair]
           /\ reserve1' = tokenBalance'[token1'][Pair]
           /\ (balanceA = amountA /\ balanceB = amountB) =>
                { reserve0', reserve1' } = { amountA, amountB }
      ELSE /\ PoolCur' = PoolCur
           /\ ret' = NoReturn

C23_FirstDeposit == [][C23_Step]_vars

\* the first deposit into a pair that held nothing
C23_Witness ==
    /\ last.op = "addLiquidity"
    /\ last.err = "ok"
    /\ steps = 1
    /\ ret = << 1400, 1400, 400 >>
    /\ reserve0 = 1400
    /\ reserve1 = 1400
    /\ balanceOf[last.sender] = 400

(***************************************************************************)
(* C24: a successful deposit into a non-empty pool uses (amountADesired,   *)
(* floor(amountADesired * reserveB / reserveA)) when that second value is  *)
(* at most amountBDesired, and (floor(amountBDesired * reserveA /          *)
(* reserveB), amountBDesired) otherwise; neither amount exceeds its        *)
(* desired value; the deposit fails with nothing changed when the optimal  *)
(* amount computed is below its minimum.                                   *)
(***************************************************************************)
C24_Step ==
    (totalSupply > 0 /\ last'.op = "addLiquidity" /\ last' # last) =>
      LET sender         == last'.sender
          tokenA         == last'.args[1]
          tokenB         == last'.args[2]
          amountADesired == last'.args[3]
          amountBDesired == last'.args[4]
          amountAMin     == last'.args[5]
          amountBMin     == last'.args[6]
          deadline       == last'.args[8]
          reserveA       == IF tokenA = token0 THEN reserve0 ELSE reserve1
          reserveB       == IF tokenA = token0 THEN reserve1 ELSE reserve0
          amountBOptimal == (amountADesired * reserveB) \div reserveA
          amountAOptimal == (amountBDesired * reserveA) \div reserveB
      IN
      IF last'.err = "ok"
      THEN /\ ret'[1] = IF amountBOptimal <= amountBDesired
                        THEN amountADesired ELSE amountAOptimal
           /\ ret'[2] = IF amountBOptimal <= amountBDesired
                        THEN amountBOptimal ELSE amountBDesired
           /\ ret'[1] <= amountADesired
           /\ ret'[2] <= amountBDesired
           /\ ret'[1] >= amountAMin
           /\ ret'[2] >= amountBMin
           /\ tokenBalance'[tokenA][sender] = tokenBalance[tokenA][sender] - ret'[1]
           /\ tokenBalance'[tokenB][sender] = tokenBalance[tokenB][sender] - ret'[2]
           /\ tokenBalance'[tokenA][Pair] = tokenBalance[tokenA][Pair] + ret'[1]
           /\ tokenBalance'[tokenB][Pair] = tokenBalance[tokenB][Pair] + ret'[2]
      ELSE /\ PoolCur' = PoolCur
           /\ (deadline >= now /\ amountBOptimal <= amountBDesired
                 /\ amountBOptimal < amountBMin)
                => last'.err = "MockRouter: INSUFFICIENT_B_AMOUNT"
           /\ (deadline >= now /\ amountBOptimal > amountBDesired
                 /\ amountAOptimal < amountAMin)
                => last'.err = "MockRouter: INSUFFICIENT_A_AMOUNT"

C24_LaterDeposit == [][C24_Step]_vars

\* 200 and 100 offered to reserves of 1400 and 1400: 100 and 100 are taken
C24_Witness ==
    /\ last.op = "addLiquidity"
    /\ last.err = "ok"
    /\ last.args[3] = 200
    /\ last.args[4] = 100
    /\ ret = << 100, 100, 100 >>
    /\ reserve0 = 1500
    /\ reserve1 = 1500

Abs(x) == IF x < 0 THEN 0 - x ELSE x

\* the sender holds the liquidity tokens and has let the router move them
CanSend(sender, liquidity) ==
    /\ balanceOf[sender] >= liquidity
    /\ \/ routerAllowance[LP][sender] = Unlimited
       \/ routerAllowance[LP][sender] >= liquidity

(***************************************************************************)
(* C25 as stated: a withdrawal of s liquidity tokens pays                  *)
(* floor(s * balanceA / totalSupply) and floor(s * balanceB / totalSupply),*)
(* burns exactly s, and leaves the ratio of the reserves unchanged up to   *)
(* rounding; it fails with INSUFFICIENT_LIQUIDITY_BURNED, nothing changed, *)
(* when either amount is 0.                                                *)
(***************************************************************************)
C25_WithdrawOfShares ==
    (totalSupply > 0 /\ last'.op = "removeLiquidity" /\ last' # last
       /\ CanSend(last'.sender, last'.args[3]) /\ last'.args[7] >= now) =>
      LET tokenA   == last'.args[1]
          tokenB   == last'.args[2]
          shares   == last'.args[3]
          amountA  == (shares * tokenBalance[tokenA][Pair]) \div totalSupply
          amountB  == (shares * tokenBalance[tokenB][Pair]) \div totalSupply
      IN
      IF amountA = 0 \/ amountB = 0
      THEN /\ last'.err = "MockPair: INSUFFICIENT_LIQUIDITY_BURNED"
           /\ PoolCur' = PoolCur
      ELSE /\ last'.err = "ok"
           /\ ret' = << amountA, amountB >>
           /\ totalSupply' = totalSupply - shares
           /\ Abs(reserve0' * reserve1 - reserve1' * reserve0)
                < (IF reserve0 > reserve1 THEN reserve0 ELSE reserve1)

C25_OriginalClaim == [][C25_WithdrawOfShares]_vars

(***************************************************************************)
(* C25, amended: a withdrawal of s liquidity tokens burns L, which is s    *)
(* plus what the pair held of its own tokens, pays floor(L * balanceA /    *)
(* totalSupply) and floor(L * balanceB / totalSupply), and sets the        *)
(* reserves to the balances left; the ratio of the reserves is unchanged   *)
(* up to rounding when the balances were the reserves; it fails with       *)
(* INSUFFICIENT_LIQUIDITY_BURNED when either amount is 0, and a failed     *)
(* withdrawal changes nothing.                                             *)
(***************************************************************************)
C25_Step ==
    (totalSupply > 0 /\ last'.op = "removeLiquidity" /\ last' # last) =>
      LET sender   == last'.sender
          tokenA   == last'.args[1]
          tokenB   == last'.args[2]
          shares   == last'.args[3]
          burned   == shares + balanceOf[Pair]
          balanceA == tokenBalance[tokenA][Pair]
          balanceB == tokenBalance[tokenB][Pair]
          amountA  == (burned * balanceA) \div totalSupply
          amountB  == (burned * balanceB) \div totalSupply
      IN
      IF last'.err = "ok"
      THEN /\ ret' = << amountA, amountB >>
           /\ amountA > 0
           /\ amountB > 0
           /\ totalSupply' = totalSupply - burned
           /\ balanceOf'[sender] = balanceOf[sender] - shares
           /\ balanceOf'[Pair] = 0
           /\ tokenBalance'[tokenA][sender] = tokenBalance[tokenA][sender] + amountA
           /\ tokenBalance'[tokenB][sender] = tokenBalance[tokenB][sender] + amountB
           /\ reserve0' = tokenBalance'[token0][Pair]
           /\ reserve1' = tokenBalance'[token1][Pair]
           /\ reserve0' = tokenBalance[token0][Pair] - (IF tokenA = token0 THEN amountA ELSE amountB)
           /\ (reserve0 = tokenBalance[token0][Pair] /\ reserve1 = tokenBalance[token1][Pair]) =>
                Abs(reserve0' * reserve1 - reserve1' * reserve0)
                  < (IF reserve0 > reserve1 THEN reserve0 ELSE reserve1)
      ELSE /\ PoolCur' = PoolCur
           /\ (CanSend(sender, shares) /\ last'.args[7] >= now
                 /\ (amountA = 0 \/ amountB = 0))
                => last'.err = "MockPair: INSUFFICIENT_LIQUIDITY_BURNED"

C25_Withdraw == [][C25_Step]_vars

\* 400 of 1400 liquidity tokens withdrawn from reserves of 1400 and 1400
C25_Witness ==
    /\ last.op = "removeLiquidity"
    /\ last.err = "ok"
    /\ last.args[3] = 400
    /\ ret = << 400, 400 >>
    /\ reserve0 = 1000
    /\ reserve1 = 1000
    /\ balanceOf[last.sender] = 0


(***************************************************************************)
(* C26 as stated: in every pool state, withdrawing right after a           *)
(* successful deposit exactly the liquidity that deposit minted pays back  *)
(* no more of either token than the deposit took.                          *)
(***************************************************************************)
C26_WithdrawAfterDeposit ==
    (/\ last.op = "addLiquidity" /\ last.err = "ok"
     /\ last'.op = "removeLiquidity" /\ last'.err = "ok"
     /\ steps' = steps + 1
     /\ last'.sender = last.sender
     /\ last'.args[3] = ret[3]) =>
      LET sameOrder == last'.args[1] = last.args[1]
          amountA   == IF sameOrder THEN ret[1] ELSE ret[2]
          amountB   == IF sameOrder THEN ret[2] ELSE ret[1]
      IN /\ ret'[1] <= amountA
         /\ ret'[2] <= amountB

C26_OriginalClaim == [][C26_WithdrawAfterDeposit]_vars

(***************************************************************************)
(* C26, amended: when the pair holds no more of the two tokens than its    *)
(* reserves and none of its own liquidity tokens, a successful deposit     *)
(* followed at once by the withdrawal of exactly the liquidity it minted   *)
(* (approve, then removeLiquidity, in either token order) pays back no     *)
(* more of either token than the deposit took.                             *)
(***************************************************************************)
C26_Step ==
    (/\ last'.op = "addLiquidity" /\ last'.err = "ok"
     /\ steps' = steps + 1
     /\ balanceOf[Pair] = 0
     /\ tokenBalance["SWAT"][Pair] = reserve0
     /\ tokenBalance["BUSD"][Pair] = reserve1) =>
      LET sender   == last'.sender
          tokenA   == last'.args[1]
          tokenB   == last'.args[2]
          deadline == last'.args[8]
          approved == lpApprove(PoolCur', sender, Unlimited).st
          same     == removeLiquidity(approved, sender, tokenA, tokenB, ret'[3],
                                      0, 0, sender, deadline)
          swapped  == removeLiquidity(approved, sender, tokenB, tokenA, ret'[3],
                                      0, 0, sender, deadline)
      IN /\ same.ok = swapped.ok
         /\ same.ok =>
              /\ same.ret[1] <= ret'[1]
              /\ same.ret[2] <= ret'[2]
              /\ swapped.ret = << same.ret[2], same.ret[1] >>

C26_RoundTrip == [][C26_Step]_vars

\* alice deposited 1400 of each token for 400 liquidity tokens and withdrew
\* them at once, for 400 of each token
C26_Witness ==
    /\ last.op = "removeLiquidity"
    /\ last.err = "ok"
    /\ last.sender = "alice"
    /\ last.args[3] = 400
    /\ steps = 2
    /\ ret = << 400, 400 >>
    /\ balanceOf["alice"] = 0
    /\ totalSupply = MINIMUM_LIQUIDITY
    /\ tokenBalance["SWAT"]["alice"] = PoolMinted - 1400 + 400


(***************************************************************************)
(* The registry on its own: createPair with every pair of addresses, the   *)
(* zero address included, in both orders, and deposits that find or create *)
(* the SWAT/BUSD pair.  The inner state the model follows is that of the   *)
(* first pair deployed, so a deposit is taken when that pair is the        *)
(* SWAT/BUSD pair or no pair exists yet.                                   *)
(***************************************************************************)
RegistryTokens == PairTokens \cup { Zero }

RegistryNext ==
    \/ \E sender \in Providers, tokenA \in RegistryTokens, tokenB \in RegistryTokens :
         CreatePair(sender, tokenA, tokenB)
    \/ \E sender \in Providers, p \in PairArgs :
         /\ getPair["SWAT"]["BUSD"] = Pair \/ allPairs = << >>
         /\ AddLiquidity(sender, p[1], p[2], 1400, 1400, 0, 0, StartTime)
    \/ Discard

SpecRegistry == PoolInit /\ [][RegistryNext]_vars

\* the pools the mapping knows, and the pools on the list
Registered == { getPair[a][b] : a \in RegistryTokens, b \in RegistryTokens } \ { Zero }
Listed == { allPairs[i] : i \in 1..Len(allPairs) }

FactoryErrors ==
    { "MockFactory: IDENTICAL_ADDRESSES", "MockFactory: ZERO_ADDRESS",
      "MockFactory: PAIR_EXISTS", "MockPair: ALREADY_INITIALIZED" }

(***************************************************************************)
(* C27: the mapping gives the same pool for (A, B) and (B, A), different   *)
(* pairs of tokens have different pools, no token is paired with itself    *)
(* or with the zero address, and the list holds exactly the pools of the   *)
(* mapping, each once.                                                     *)
(***************************************************************************)
C27_Registry ==
    /\ \A a \in RegistryTokens, b \in RegistryTokens :
         /\ getPair[a][b] = getPair[b][a]
         /\ (a = b \/ a = Zero \/ b = Zero) => getPair[a][b] = Zero
    /\ \A a \in RegistryTokens, b \in RegistryTokens,
          c \in RegistryTokens, d \in RegistryTokens :
         (getPair[a][b] # Zero /\ getPair[a][b] = getPair[c][d]) => {a, b} = {c, d}
    /\ Listed = Registered
    /\ \A i \in 1..Len(allPairs), j \in 1..Len(allPairs) :
         allPairs[i] = allPairs[j] => i = j

(***************************************************************************)
(* C27, the deposits: addLiquidity(A, B) and addLiquidity(B, A) never fail *)
(* with an error of the factory; a successful one leaves (A, B) and (B, A) *)
(* on one pool, which is the pool they had before when there was one and   *)
(* one new pool on the list otherwise; a failed one changes nothing.       *)
(***************************************************************************)
C27_DepositStep ==
    (last'.op = "addLiquidity" /\ last' # last) =>
      LET tokenA == last'.args[1]
          tokenB == last'.args[2]
      IN
      /\ last'.err \notin FactoryErrors
      /\ last'.err = "ok" =>
           /\ getPair'[tokenA][tokenB] # Zero
           /\ getPair'[tokenA][tokenB] = getPair'[tokenB][tokenA]
           /\ IF getPair[tokenA][tokenB] # Zero
              THEN getPair' = getPair /\ allPairs' = allPairs
              ELSE /\ getPair[tokenB][tokenA] = Zero
                   /\ allPairs' = Append(allPairs, getPair'[tokenA][tokenB])
      /\ last'.err # "ok" => (getPair' = getPair /\ allPairs' = allPairs)

C27_OnePoolPerPair == []C27_Registry /\ [][C27_DepositStep]_vars

\* three pools for the three pairs of tokens, and deposits in both orders
\* that went to the first of them
C27_Witness ==
    /\ Len(allPairs) = 3
    /\ getPair["BUSD"]["SWAT"] = Pair
    /\ getPair["WBNB"]["SWAT"] # getPair["WBNB"]["BUSD"]
    /\ last.op = "addLiquidity"
    /\ last.err = "ok"
    /\ last.args[1] = "BUSD"
    /\ totalSupply = 2 * 1400


(***************************************************************************)
(* C28: createPair(A, B) fails with IDENTICAL_ADDRESSES when A = B, else   *)
(* with ZERO_ADDRESS when A or B is the zero address, else with            *)
(* PAIR_EXISTS when a pool for A and B exists, whichever the order of the  *)
(* arguments, and succeeds otherwise; a failed createPair leaves the       *)
(* mapping and the list of pairs as they were.                             *)
(***************************************************************************)
C28_Step ==
    (last'.op = "createPair" /\ last' # last) =>
      LET tokenA == last'.args[1]
          tokenB == last'.args[2]
      IN
      /\ last'.err =
           IF tokenA = tokenB THEN "MockFactory: IDENTICAL_ADDRESSES"
           ELSE IF tokenA = Zero \/ tokenB = Zero THEN "MockFactory: ZERO_ADDRESS"
           ELSE IF getPair[tokenA][tokenB] # Zero \/ getPair[tokenB][tokenA] # Zero
           THEN "MockFactory: PAIR_EXISTS"
           ELSE "ok"
      /\ IF last'.err = "ok"
         THEN /\ Len(allPairs') = Len(allPairs) + 1
              /\ getPair'[tokenA][tokenB] = allPairs'[Len(allPairs')]
         ELSE /\ getPair' = getPair
              /\ allPairs' = allPairs

C28_CreatePairFailures == [][C28_Step]_vars

\* createPair(BUSD, SWAT) refused after createPair(SWAT, BUSD) and
\* createPair(SWAT, WBNB)
C28_Witness ==
    /\ last.op = "createPair"
    /\ last.err = "MockFactory: PAIR_EXISTS"
    /\ last.args = << "BUSD", "SWAT" >>
    /\ allPairs = << Pair, PairAddress(1) >>
    /\ getPair["SWAT"]["BUSD"] = Pair
    /\ getPair["WBNB"]["SWAT"] = PairAddress(1)
    /\ getPair["WBNB"]["BUSD"] = Zero


(***************************************************************************)
(* SWATToken and what it inherits from ERC20, Ownable and Pausable.  The   *)
(* operators take the state of the token (the record swat) and return it   *)
(* changed or a revert.                                                    *)
(***************************************************************************)
TokenOwner == "owner"     \* Ownable(msg.sender): the deployer

(***************************************************************************)
(* SWATToken._update (ERC20._update under whenNotPaused): a move from the  *)
(* zero address is a mint.  No function of the token moves value to the    *)
(* zero address.                                                           *)
(***************************************************************************)
SWATToken_update(s, from, to, amount) ==
    IF s.paused THEN Revert(s, "EnforcedPause")
    ELSE IF from = Zero
    THEN Return([s EXCEPT !.totalSupply = @ + amount,
                          !.balanceOf[to] = @ + amount], << >>)
    ELSE IF s.balanceOf[from] < amount THEN Revert(s, "ERC20InsufficientBalance")
    ELSE Return([s EXCEPT !.balanceOf[from] = @ - amount,
                          !.balanceOf[to] = @ + amount], << >>)

(***************************************************************************)
(* SWATToken.mint without the test against MAX_SUPPLY.                     *)
(***************************************************************************)
SWATToken_mint_uncapped(s, sender, to, amount) ==
    IF sender # TokenOwner THEN Revert(s, "OwnableUnauthorizedAccount")
    ELSE IF ~(to # Zero) THEN Revert(s, "SWATToken: mint to zero address")
    ELSE IF ~(amount = Unlimited \/ amount > 0)
    THEN Revert(s, "SWATToken: mint amount must be greater than 0")
    ELSE IF amount = Unlimited /\ s.totalSupply > 0 THEN Revert(s, "Panic(0x11)")
    ELSE SWATToken_update(s, Zero, to, amount)

(***************************************************************************)
(* SWATToken.mint.  An amount of Unlimited stands for type(uint256).max:   *)
(* totalSupply() + amount then overflows unless the supply is 0.           *)
(***************************************************************************)
SWATToken_mint(s, sender, to, amount) ==
    IF sender # TokenOwner THEN Revert(s, "OwnableUnauthorizedAccount")
    ELSE IF ~(to # Zero) THEN Revert(s, "SWATToken: mint to zero address")
    ELSE IF ~(amount = Unlimited \/ amount > 0)
    THEN Revert(s, "SWATToken: mint amount must be greater than 0")
    ELSE IF amount = Unlimited /\ s.totalSupply > 0 THEN Revert(s, "Panic(0x11)")
    ELSE IF amount = Unlimited \/ ~(s.totalSupply + amount <= MAX_SUPPLY)
    THEN Revert(s, "SWATToken: exceeds max supply")
    ELSE SWATToken_update(s, Zero, to, amount)

\* ERC20.transfer
SWATToken_transfer(s, sender, to, amount) ==
    IF to = Zero THEN Revert(s, "ERC20InvalidReceiver")
    ELSE
      LET u == SWATToken_update(s, sender, to, amount) IN
      IF ~u.ok THEN u ELSE Return(u.st, << TRUE >>)

\* SWATToken.pause and SWATToken.unpause
SWATToken_pause(s, sender) ==
    IF sender # TokenOwner THEN Revert(s, "OwnableUnauthorizedAccount")
    ELSE IF s.paused THEN Revert(s, "EnforcedPause")
    ELSE Return([s EXCEPT !.paused = TRUE], << >>)

SWATToken_unpause(s, sender) ==
    IF sender # TokenOwner THEN Revert(s, "OwnableUnauthorizedAccount")
    ELSE IF ~s.paused THEN Revert(s, "ExpectedPause")
    ELSE Return([s EXCEPT !.paused = FALSE], << >>)

(***************************************************************************)
(* The token as a machine: one action per external function, called by     *)
(* any account with recipients and amounts around the cap.                 *)
(***************************************************************************)
MintAmounts == { 0, 1, MAX_SUPPLY - 1, MAX_SUPPLY, MAX_SUPPLY + 1, Unlimited }
TokenAmounts == { 0, 1, 2 }

TokenExecute(r, call) ==
    /\ race.todo = {}
    /\ last.err = "ok"
    /\ swat' = Commit(swat, r)
    /\ ret' = IF r.ok THEN r.ret ELSE NoReturn
    /\ last' = [call EXCEPT !.err = r.err]
    /\ UNCHANGED << now, offers, offerIdCounter, offerExpiryTime, lastOfferTime,
                    dailyOfferCount, paused, bal, allowance, status, paidOut,
                    withdrawn, race, getPair, allPairs, token0, token1, reserve0,
                    reserve1, totalSupply, balanceOf, tokenBalance,
                    routerAllowance, steps, args, frame >>

TokenMint(sender, to, amount) ==
    TokenExecute(SWATToken_mint(swat, sender, to, amount),
                 PoolCall("SWATToken.mint", sender, << to, amount >>))

TokenTransfer(sender, to, amount) ==
    TokenExecute(SWATToken_transfer(swat, sender, to, amount),
                 PoolCall("SWATToken.transfer", sender, << to, amount >>))

TokenPause(sender) ==
    TokenExecute(SWATToken_pause(swat, sender),
                 PoolCall("SWATToken.pause", sender, << >>))

TokenUnpause(sender) ==
    TokenExecute(SWATToken_unpause(swat, sender),
                 PoolCall("SWATToken.unpause", sender, << >>))

TokenNext ==
    \/ \E sender \in Accounts :
         \/ \E to \in Accounts \cup { Zero }, amount \in MintAmounts :
              TokenMint(sender, to, amount)
         \/ \E to \in Accounts \cup { Zero }, amount \in TokenAmounts :
              TokenTransfer(sender, to, amount)
         \/ TokenPause(sender)
         \/ TokenUnpause(sender)
    \/ Discard

SpecToken == PoolInit /\ [][TokenNext]_vars

TokenTypeOK ==
    /\ swat.totalSupply \in Nat
    /\ swat.paused \in BOOLEAN
    /\ \A a \in Accounts : swat.balanceOf[a] \in Nat

RECURSIVE SumOfBalances(_)
SumOfBalances(accounts) ==
    IF accounts = {} THEN 0
    ELSE LET a == CHOOSE x \in accounts : TRUE
         IN swat.balanceOf[a] + SumOfBalances(accounts \ {a})

(***************************************************************************)
(* C29: the supply never exceeds MAX_SUPPLY and is the sum of the          *)
(* balances.                                                               *)
(***************************************************************************)
C29_Capped ==
    /\ swat.totalSupply <= MAX_SUPPLY
    /\ swat.totalSupply = SumOfBalances(Accounts)

(***************************************************************************)
(* C29, the calls: a mint succeeds only when the owner calls it with a     *)
(* recipient other than the zero address and an amount greater than 0      *)
(* that keeps the supply within MAX_SUPPLY, and then adds the amount to    *)
(* the supply and to the recipient; such a mint succeeds on a token that   *)
(* is not paused, up to the cap exactly; a failed mint changes neither     *)
(* supply nor balances; a transfer, successful or not, leaves the supply   *)
(* as it was.                                                              *)
(***************************************************************************)
C29_Step ==
    /\ (last'.op = "SWATToken.mint" /\ last' # last) =>
         LET sender == last'.sender
             to     == last'.args[1]
             amount == last'.args[2]
             valid  == /\ sender = TokenOwner
                       /\ to # Zero
                       /\ amount # Unlimited
                       /\ amount > 0
                       /\ swat.totalSupply + amount <= MAX_SUPPLY
         IN
         /\ last'.err = "ok" =>
              /\ valid
              /\ swat'.totalSupply = swat.totalSupply + amount
              /\ swat'.balanceOf = [swat.balanceOf EXCEPT ![to] = @ + amount]
         /\ last'.err # "ok" => swat' = swat
         /\ (valid /\ ~swat.paused) => last'.err = "ok"
    /\ (last'.op = "SWATToken.transfer" /\ last' # last) =>
         swat'.totalSupply = swat.totalSupply

C29_SupplyCap == []C29_Capped /\ [][C29_Step]_vars

\* the owner minted 1 to alice and then MAX_SUPPLY - 1 to bob: the supply
\* is at the cap
C29_Witness ==
    /\ last.op = "SWATToken.mint"
    /\ last.err = "ok"
    /\ last.args = << "bob", MAX_SUPPLY - 1 >>
    /\ swat.balanceOf["alice"] = 1
    /\ swat.balanceOf["bob"] = MAX_SUPPLY - 1
    /\ swat.totalSupply = MAX_SUPPLY


(***************************************************************************)
(* C30 as stated: while the token is paused a transfer fails and changes   *)
(* no balance, and a mint by the owner to an account, of an amount greater *)
(* than 0 within the cap, succeeds and credits the recipient; once         *)
(* unpaused, a transfer of no more than the sender's balance to an         *)
(* account succeeds.                                                       *)
(***************************************************************************)
C30_Step ==
    /\ (last'.op = "SWATToken.transfer" /\ last' # last) =>
         LET sender == last'.sender
             to     == last'.args[1]
             amount == last'.args[2]
         IN
         /\ swat.paused => (last'.err # "ok" /\ swat' = swat)
         /\ (~swat.paused /\ to # Zero /\ amount <= swat.balanceOf[sender]) =>
              /\ last'.err = "ok"
              /\ swat'.balanceOf[to] =
                   (IF to = sender THEN swat.balanceOf[to] ELSE swat.balanceOf[to] + amount)
    /\ (last'.op = "SWATToken.mint" /\ last' # last /\ swat.paused) =>
         LET to     == last'.args[1]
             amount == last'.args[2]
         IN
         (/\ last'.sender = TokenOwner
          /\ to # Zero
          /\ amount # Unlimited
          /\ amount > 0
          /\ swat.totalSupply + amount <= MAX_SUPPLY) =>
           /\ last'.err = "ok"
           /\ swat'.balanceOf[to] = swat.balanceOf[to] + amount

C30_PausedBlocksTransfersOnly == [][C30_Step]_vars


(***************************************************************************)
(* The handlers transfer by transfer.  acceptOffer, cancelOffer and        *)
(* reclaimExpired first run their checks and clear the offer's flag        *)
(* (acceptOffer_start, cancelOffer_start, reclaimExpired_start), then call *)
(* the tokens; a token that is called can call the escrow back before it   *)
(* returns.                                                                *)
(***************************************************************************)
acceptOffer_start(s, sender, offerId, busdAddress) ==
    LET offer == s.offers[offerId] IN
    IF s.paused THEN Revert(s, "EnforcedPause")
    ELSE IF ~offer.active THEN Revert(s, "Offer is not active")
    ELSE IF sender # offer.buyer THEN Revert(s, "Not the designated buyer")
    ELSE IF busdAddress = Zero THEN Revert(s, "Invalid BUSD address")
    ELSE IF ~(s.now <= offer.expiresAt) THEN Revert(s, "Offer has expired")
    ELSE Ok([s EXCEPT !.offers[offerId].active = FALSE])

(***************************************************************************)
(* cancelOffer whose flag is still set when the tokens are sent.           *)
(***************************************************************************)
cancelOffer_start_keepsActive(s, sender, offerId) ==
    LET offer == s.offers[offerId] IN
    IF s.paused THEN Revert(s, "EnforcedPause")
    ELSE IF ~offer.active THEN Revert(s, "Offer is not active")
    ELSE IF sender # offer.seller THEN Revert(s, "Not the seller")
    ELSE Ok(s)

cancelOffer_start(s, sender, offerId) ==
    LET offer == s.offers[offerId] IN
    IF s.paused THEN Revert(s, "EnforcedPause")
    ELSE IF ~offer.active THEN Revert(s, "Offer is not active")
    ELSE IF sender # offer.seller THEN Revert(s, "Not the seller")
    ELSE Ok([s EXCEPT !.offers[offerId].active = FALSE])

reclaimExpired_start(s, sender, offerId) ==
    LET offer == s.offers[offerId] IN
    IF ~offer.active THEN Revert(s, "Offer is not active")
    ELSE IF ~(s.now > offer.expiresAt) THEN Revert(s, "Offer has not expired yet")
    ELSE Ok([s EXCEPT !.offers[offerId].active = FALSE])

start(op, s, sender, offerId, busdAddress) ==
    IF op = "acceptOffer" THEN acceptOffer_start(s, sender, offerId, busdAddress)
    ELSE IF op = "cancelOffer" THEN cancelOffer_start(s, sender, offerId)
    ELSE reclaimExpired_start(s, sender, offerId)

\* the handler run in one piece
whole(op, s, sender, offerId, busdAddress) ==
    IF op = "acceptOffer" THEN acceptOffer(s, sender, offerId, busdAddress)
    ELSE IF op = "cancelOffer" THEN cancelOffer(s, sender, offerId)
    ELSE reclaimExpired(s, sender, offerId)

\* the token calls a handler makes after its checks, in order
transfers(op, s, sender, offerId, busdAddress) ==
    LET offer == s.offers[offerId]
        out(to) == [ token |-> offer.tokenAddress, from |-> Escrow, to |-> to,
                     value |-> offer.amount ]
    IN
    IF op = "acceptOffer"
    THEN << [ token |-> busdAddress, from |-> sender, to |-> offer.seller,
              value |-> offer.priceInBUSD ],
            out(sender) >>
    ELSE IF op = "cancelOffer" THEN << out(sender) >>
    ELSE << out(offer.seller) >>

transferOne(s, t) ==
    IF t.from = Escrow THEN safeTransfer(s, t.token, t.to, t.value)
    ELSE safeTransferFrom(s, t.token, t.from, t.to, t.value)

\* the event a handler ends with
Emitted(op) ==
    IF op = "acceptOffer" THEN "Settled"
    ELSE IF op = "cancelOffer" THEN "Cancelled" ELSE "Expired"

\* ReentrancyGuard.nonReentrant around a call made while another is in progress
nonReentrant(entered, s, r) ==
    IF entered THEN Revert(s, "ReentrancyGuardReentrantCall") ELSE r

\* the escrow's variables take the values of s
Becomes(s) ==
    /\ offers' = s.offers
    /\ offerIdCounter' = s.offerIdCounter
    /\ offerExpiryTime' = s.offerExpiryTime
    /\ lastOfferTime' = s.lastOfferTime
    /\ dailyOfferCount' = s.dailyOfferCount
    /\ paused' = s.paused
    /\ bal' = s.bal
    /\ allowance' = s.allowance
    /\ status' = s.status
    /\ paidOut' = s.paidOut
    /\ withdrawn' = s.withdrawn
    /\ now' = now
    /\ race' = NoRace
    /\ UNCHANGED << poolVars, tokenVars >>

(***************************************************************************)
(* A call enters its handler: a failed check reverts it at once, otherwise *)
(* the flag is cleared and the transfers are to come.                      *)
(***************************************************************************)
EnterCall(op, sender, offerId, busdAddress) ==
    LET r == start(op, Cur, sender, offerId, busdAddress) IN
    /\ Idle
    /\ frame.op = "none"
    /\ Becomes(Commit(Cur, r))
    /\ IF r.ok
       THEN /\ frame' = [ op |-> op, sender |-> sender, id |-> offerId,
                          busd |-> busdAddress, pre |-> Cur, nested |-> "none",
                          todo |-> transfers(op, Cur, sender, offerId, busdAddress) ]
            /\ last' = NoCall
       ELSE /\ frame' = NoFrame
            /\ last' = [Call(op, sender, offerId, busdAddress, 0) EXCEPT !.err = r.err]

(***************************************************************************)
(* The next transfer of the call in progress: a failed transfer reverts    *)
(* the call, the last one ends it.                                         *)
(***************************************************************************)
Transfer ==
    /\ frame.op # "none"
    /\ LET t    == transferOne(Cur, Head(frame.todo))
           call == Call(frame.op, frame.sender, frame.id, frame.busd, 0)
       IN
       IF ~t.ok
       THEN /\ Becomes(frame.pre)
            /\ frame' = NoFrame
            /\ last' = [call EXCEPT !.err = t.err]
       ELSE IF Len(frame.todo) = 1
       THEN /\ Becomes([t.st EXCEPT !.status[frame.id] = Emitted(frame.op),
                                    !.paidOut[frame.id] = @ + 1])
            /\ frame' = NoFrame
            /\ last' = call
       ELSE /\ Becomes(t.st)
            /\ frame' = [frame EXCEPT !.todo = Tail(@)]
            /\ last' = last

(***************************************************************************)
(* The token being called calls the escrow back on the same offer and      *)
(* goes on whatever the answer.                                            *)
(***************************************************************************)
Reenter(op, sender, busdAddress) ==
    LET r == nonReentrant(frame.op # "none", Cur,
                          whole(op, Cur, sender, frame.id, busdAddress))
    IN
    /\ frame.op # "none"
    /\ frame.nested = "none"
    /\ Becomes(Commit(Cur, r))
    /\ frame' = [frame EXCEPT !.nested = r.err]
    /\ last' = last

ReentryNext ==
    \/ \E sender \in Sellers, amount \in AmountChoices, priceInBUSD \in PriceChoices,
          buyer \in BuyerArgs :
         frame.op = "none" /\ CreateOffer(sender, "SWAT", amount, priceInBUSD, buyer)
    \/ \E a \in ApproveArgs : frame.op = "none" /\ Approve(a[1], a[2], ApproveValue)
    \/ \E t \in ClockValues : frame.op = "none" /\ Tick(t)
    \/ frame.op = "none" /\ Discard
    \/ \E op \in TerminalOps, sender \in Traders, offerId \in OfferIds :
         EnterCall(op, sender, offerId, QuoteAsset)
    \/ Transfer
    \/ \E op \in TerminalOps, sender \in Traders : Reenter(op, sender, QuoteAsset)

SpecReentry == Init /\ [][ReentryNext]_vars

(***************************************************************************)
(* C31: while a transfer of acceptOffer, cancelOffer or reclaimExpired is  *)
(* in progress the offer is not active, and each of the three handlers     *)
(* run on it by any caller would fail on its own checks; no offer is paid  *)
(* out twice.                                                              *)
(***************************************************************************)
C31_InactiveDuringTransfer ==
    /\ frame.op # "none" =>
         /\ ~offers[frame.id].active
         /\ \A op \in TerminalOps, sender \in Accounts, busdAddress \in Tokens :
              ~whole(op, Cur, sender, frame.id, busdAddress).ok
    /\ \A i \in OfferIds : paidOut[i] <= 1

(***************************************************************************)
(* C31, the calls: a call made back into the escrow during the transfer    *)
(* fails and changes nothing; and a call carried out transfer by transfer  *)
(* ends as the handler run in one piece from the state it entered in.      *)
(***************************************************************************)
C31_Step ==
    /\ (frame.op # "none" /\ frame'.op # "none" /\ frame'.nested # frame.nested) =>
         /\ frame'.nested # "ok"
         /\ Cur' = Cur
    /\ (frame.op # "none" /\ frame'.op = "none") =>
         LET r == whole(frame.op, frame.pre, frame.sender, frame.id, frame.busd) IN
         /\ last'.err = r.err
         /\ Cur' = Commit(frame.pre, r)

C31_FlagBeforeTransfer == []C31_InactiveDuringTransfer /\ [][C31_Step]_vars

\* bob's acceptOffer has paid alice and is about to hand over the tokens;
\* the token called alice's cancelOffer on the way, which failed
C31_Witness ==
    /\ frame.op = "acceptOffer"
    /\ frame.sender = "bob"
    /\ Len(frame.todo) = 1
    /\ frame.nested = "ReentrancyGuardReentrantCall"
    /\ ~offers[frame.id].active
    /\ offers[frame.id].amount > 0
    /\ bal[offers[frame.id].tokenAddress][Escrow] >= offers[frame.id].amount
    /\ status[frame.id] = "Active"


(***************************************************************************)
(* C32 as stated: on an escrow that is not paused acceptOffer fails for    *)
(* an id that was never issued with an error of its own, other than the    *)
(* one for an offer that is not active; otherwise with "Offer is not       *)
(* active" when the offer is terminal; otherwise with "Not the designated  *)
(* buyer" when the caller is not the buyer; otherwise, the token address   *)
(* given, with "Offer has expired" when now > expiresAt.                   *)
(***************************************************************************)
C32_Step ==
    (last'.op = "acceptOffer" /\ last' # last /\ ~paused) =>
      LET offer == offers[last'.id] IN
      IF ~(last'.id < offerIdCounter)
      THEN last'.err \notin { "ok", "Offer is not active" }
      ELSE IF ~offer.active THEN last'.err = "Offer is not active"
      ELSE IF last'.sender # offer.buyer THEN last'.err = "Not the designated buyer"
      ELSE (last'.token # Zero /\ now > offer.expiresAt) =>
             last'.err = "Offer has expired"

C32_AcceptErrorPrecedence == [][C32_Step]_vars


(***************************************************************************)
(* C33: after every successful addLiquidity and removeLiquidity the        *)
(* reserves are the pair's balances of the two tokens.  What the pair      *)
(* held beyond its reserves before the call is part of them afterwards,    *)
(* and it was counted: the liquidity minted is computed from the balances  *)
(* less the old reserves, the amounts paid out from the whole balances.    *)
(***************************************************************************)
C33_Step ==
    (last'.op \in {"addLiquidity", "removeLiquidity"} /\ last'.err = "ok"
       /\ steps' = steps + 1) =>
      LET balance0 == tokenBalance["SWAT"][Pair]
          balance1 == tokenBalance["BUSD"][Pair]
          sameOrder == last'.args[1] = "SWAT"
          taken0   == IF sameOrder THEN ret'[1] ELSE ret'[2]
          taken1   == IF sameOrder THEN ret'[2] ELSE ret'[1]
      IN
      /\ token0' = "SWAT" /\ token1' = "BUSD"
      /\ reserve0' = tokenBalance'["SWAT"][Pair]
      /\ reserve1' = tokenBalance'["BUSD"][Pair]
      /\ IF last'.op = "addLiquidity"
         THEN LET amount0 == balance0 + taken0 - reserve0
                  amount1 == balance1 + taken1 - reserve1
              IN
              /\ reserve0' = balance0 + taken0
              /\ reserve1' = balance1 + taken1
              /\ ret'[3] = IF totalSupply = 0
                           THEN sqrt(amount0 * amount1) - MINIMUM_LIQUIDITY
                           ELSE min((amount0 * totalSupply) \div reserve0,
                                    (amount1 * totalSupply) \div reserve1)
         ELSE /\ reserve0' = balance0 - taken0
              /\ reserve1' = balance1 - taken1
              /\ taken0 = ((last'.args[3] + balanceOf[Pair]) * balance0) \div totalSupply
              /\ taken1 = ((last'.args[3] + balanceOf[Pair]) * balance1) \div totalSupply

C33_ReservesAreBalances == [][C33_Step]_vars

\* 10 SWAT sent to the pair past the router became part of the reserves
\* with the deposit of 200 and 200 that followed
C33_Witness ==
    /\ last.op = "addLiquidity"
    /\ last.err = "ok"
    /\ ret = << 200, 200, 200 >>
    /\ reserve0 = 1400 + 10 + 200
    /\ reserve1 = 1400 + 200
    /\ tokenBalance["SWAT"][Pair] = reserve0
    /\ tokenBalance["BUSD"][Pair] = reserve1


(***************************************************************************)
(* The pair at the limit of its reserves: the providers hold one more than *)
(* type(uint112).max of each token; deposits of about half the limit, a    *)
(* transfer of everything to the pair past the router, withdrawals.        *)
(***************************************************************************)
HalfLimit == (UINT112_MAX \div 2) + 1

OverflowDeposits ==
    { << HalfLimit, HalfLimit, 0, 0 >>, << HalfLimit - 1, HalfLimit - 1, 0, 0 >> }

OverflowInit ==
    /\ now = StartTime
    /\ offers = Deployed(OfferIds, 0, 0).offers
    /\ offerIdCounter = 0
    /\ offerExpiryTime = DEFAULT_EXPIRY_TIME
    /\ lastOfferTime = Deployed(OfferIds, 0, 0).lastOfferTime
    /\ dailyOfferCount = Deployed(OfferIds, 0, 0).dailyOfferCount
    /\ paused = FALSE
    /\ bal = Deployed(OfferIds, 0, 0).bal
    /\ allowance = Deployed(OfferIds, 0, 0).allowance
    /\ status = Deployed(OfferIds, 0, 0).status
    /\ paidOut = Deployed(OfferIds, 0, 0).paidOut
    /\ withdrawn = Deployed(OfferIds, 0, 0).withdrawn
    /\ last = NoCall
    /\ race = NoRace
    /\ PoolDeployed(UINT112_MAX + 1, UINT112_MAX + 1)
    /\ swat = SWATTokenDeployed
    /\ frame = NoFrame
    /\ args = << >>

OverflowNext ==
    \/ \E sender \in Providers, p \in PairArgs, d \in OverflowDeposits :
         AddLiquidity(sender, p[1], p[2], d[1], d[2], d[3], d[4], StartTime)
    \/ \E sender \in RouterUsers, p \in PairArgs, liquidity \in LiquidityChoices :
         RemoveLiquidity(sender, p[1], p[2], liquidity, StartTime)
    \/ \E sender \in RouterUsers : ApproveRouter(sender)
    \/ \E sender \in DirectUsers, token \in Tokens :
         TransferToPair(sender, token, HalfLimit)
    \/ Discard

SpecOverflow == OverflowInit /\ [][OverflowNext]_vars

(***************************************************************************)
(* C34: both reserves are at most type(uint112).max in every state.        *)
(***************************************************************************)
C34_ReservesFit ==
    /\ reserve0 <= UINT112_MAX
    /\ reserve1 <= UINT112_MAX

(***************************************************************************)
(* C34, the calls: an addLiquidity or removeLiquidity that can make its     *)
(* transfers and would leave the pair with a balance of either token       *)
(* above type(uint112).max fails with "MockPair: OVERFLOW"; the call fails *)
(* with that error in no other case; a failed call leaves factory, pair    *)
(* and ledgers as they were; after a successful one the reserves are the   *)
(* balances, not a truncation of them.                                     *)
(***************************************************************************)
C34_Step ==
    (last'.op \in {"addLiquidity", "removeLiquidity"} /\ last' # last) =>
      LET sender   == last'.sender
          tokenA   == last'.args[1]
          tokenB   == last'.args[2]
          deposit  == last'.op = "addLiquidity"
          amounts  == _calculateLiquidityAmounts(PoolCur, tokenA, tokenB, last'.args[3],
                                                 last'.args[4], last'.args[5], last'.args[6])
          burned   == last'.args[3] + balanceOf[Pair]
          allowed(t, value) ==
              \/ routerAllowance[t][sender] = Unlimited
              \/ routerAllowance[t][sender] >= value
          after(t, k) ==
              IF deposit
              THEN tokenBalance[t][Pair] + amounts.ret[k]
              ELSE tokenBalance[t][Pair] - ((burned * tokenBalance[t][Pair]) \div totalSupply)
          reaches  ==
              IF deposit
              THEN /\ amounts.ok
                   /\ tokenBalance[tokenA][sender] >= amounts.ret[1]
                   /\ tokenBalance[tokenB][sender] >= amounts.ret[2]
                   /\ allowed(tokenA, amounts.ret[1])
                   /\ allowed(tokenB, amounts.ret[2])
              ELSE /\ totalSupply > 0
                   /\ CanSend(sender, last'.args[3])
                   /\ (burned * tokenBalance[tokenA][Pair]) \div totalSupply > 0
                   /\ (burned * tokenBalance[tokenB][Pair]) \div totalSupply > 0
          exceeds  == reaches /\ (after(tokenA, 1) > UINT112_MAX \/ after(tokenB, 2) > UINT112_MAX)
      IN
      /\ (last'.err = "MockPair: OVERFLOW") = exceeds
      /\ last'.err # "ok" => PoolCur' = PoolCur
      /\ last'.err = "ok" =>
           /\ reserve0' = tokenBalance'[token0'][Pair]
           /\ reserve1' = tokenBalance'[token1'][Pair]

C34_NoOverflow == []C34_ReservesFit /\ [][C34_Step]_vars

\* the pair holds half the limit of each token after alice's deposit; bob's
\* deposit of as much again was refused
C34_Witness ==
    /\ last.op = "addLiquidity"
    /\ last.sender = "bob"
    /\ last.err = "MockPair: OVERFLOW"
    /\ last.args[3] = HalfLimit
    /\ reserve0 = HalfLimit
    /\ reserve1 = HalfLimit
    /\ tokenBalance["SWAT"][Pair] = HalfLimit
    /\ tokenBalance["SWAT"]["bob"] = UINT112_MAX + 1


\* a withdrawal refused because what would stay in the pair is above the limit
C34_WithdrawOverflow ==
    /\ last.op = "removeLiquidity"
    /\ last.err = "MockPair: OVERFLOW"
    /\ reserve0 = HalfLimit
    /\ tokenBalance["SWAT"][Pair] > UINT112_MAX


(***************************************************************************)
(* C35: for an Active offer exactly one of the two expiry checks passes,   *)
(* that of acceptOffer called by the buyer and that of reclaimExpired; no  *)
(* state lets the same offer be both accepted and reclaimed.               *)
(***************************************************************************)
AcceptPassesExpiry(offerId) ==
    acceptOffer([Cur EXCEPT !.paused = FALSE], offers[offerId].buyer, offerId,
                QuoteAsset).err # "Offer has expired"

ReclaimPassesExpiry(offerId) ==
    reclaimExpired(Cur, offers[offerId].seller, offerId).err # "Offer has not expired yet"

C35_Windows ==
    \A offerId \in OfferIds :
      offers[offerId].active =>
        /\ AcceptPassesExpiry(offerId) # ReclaimPassesExpiry(offerId)
        /\ AcceptPassesExpiry(offerId) = (now <= offers[offerId].expiresAt)
        /\ \A sender \in Accounts, busdAddress \in TokenArgs :
             ~(/\ acceptOffer(Cur, sender, offerId, busdAddress).ok
               /\ \E caller \in Accounts : reclaimExpired(Cur, caller, offerId).ok)

(***************************************************************************)
(* C35, the steps: the clock never goes back, the deadline of an Active    *)
(* offer never moves, an offer becomes Settled only at now <= expiresAt    *)
(* and Expired only at now > expiresAt.                                    *)
(***************************************************************************)
C35_Step ==
    /\ now' >= now
    /\ \A offerId \in OfferIds :
         /\ (offers[offerId].active /\ offers'[offerId].active) =>
              offers'[offerId].expiresAt = offers[offerId].expiresAt
         /\ (offers[offerId].active /\ now > offers[offerId].expiresAt) =>
              status'[offerId] # "Settled"
         /\ (status'[offerId] = "Settled" /\ status[offerId] # "Settled") =>
              /\ offers[offerId].active
              /\ now <= offers[offerId].expiresAt
         /\ (status'[offerId] = "Expired" /\ status[offerId] # "Expired") =>
              /\ offers[offerId].active
              /\ now > offers[offerId].expiresAt

C35_ComplementaryWindows == []C35_Windows /\ [][C35_Step]_vars

\* at the deadline itself the offer is still Active and a reclaim is refused
C35_Witness ==
    /\ last.op = "reclaimExpired"
    /\ last.err = "Offer has not expired yet"
    /\ offers[last.id].active
    /\ now = offers[last.id].expiresAt
    /\ acceptOffer(Cur, offers[last.id].buyer, last.id, QuoteAsset).ok


(***************************************************************************)
(* C36: cancelOffer has no test of the clock.  Called by the seller on an  *)
(* Active offer it is never refused for the time, before or after          *)
(* expiresAt; with the escrow not paused and holding the amount it         *)
(* returns, the amount goes from custody to the seller, the offer ends as  *)
(* Cancelled, and a reclaimExpired on it then fails with "Offer is not     *)
(* active" whoever calls.                                                  *)
(***************************************************************************)
C36_Step ==
    LET id == last'.id
        o  == offers[id]
    IN
    ( /\ Called("cancelOffer")
      /\ o.active
      /\ last'.sender = o.seller )
    =>
    /\ last'.err \in {"ok", "EnforcedPause", "ERC20InsufficientBalance"}
    /\ last'.err = "EnforcedPause" <=> paused
    /\ (~paused /\ bal[o.tokenAddress][Escrow] >= o.amount) => last'.err = "ok"
    /\ last'.err = "ok" =>
          /\ bal' = AfterReturn(bal, o)
          /\ status'[id] = "Cancelled"
          /\ ~offers'[id].active
          /\ \A caller \in Accounts :
               reclaimExpired(Cur', caller, id).err = "Offer is not active"

C36_CancelAtAnyTime == [][C36_Step]_vars

\* the seller cancelled an offer that had expired and had not been reclaimed
C36_Witness ==
    /\ last.op = "cancelOffer"
    /\ last.err = "ok"
    /\ last.sender = offers[last.id].seller
    /\ now > offers[last.id].expiresAt
    /\ status[last.id] = "Cancelled"
    /\ bal[offers[last.id].tokenAddress][Escrow] = 0

(***************************************************************************)
(* C37: pause does not block reclaimExpired.  While the escrow is paused   *)
(* acceptOffer and cancelOffer fail with EnforcedPause and change nothing; *)
(* reclaimExpired never fails with EnforcedPause, and on an Active offer   *)
(* with now > expiresAt whose amount the escrow holds it returns, pays the *)
(* seller and ends the offer as Expired.                                   *)
(***************************************************************************)
C37_Step ==
    LET id == last'.id
        o  == offers[id]
    IN
    /\ (paused /\ last'.op \in {"acceptOffer", "cancelOffer"} /\ last' # last) =>
          /\ last'.err = "EnforcedPause"
          /\ LedgerUnchanged
          /\ ContractUnchanged
          /\ status' = status
    /\ Called("reclaimExpired") => last'.err # "EnforcedPause"
    /\ ( /\ Called("reclaimExpired")
         /\ paused
         /\ o.active
         /\ now > o.expiresAt
         /\ bal[o.tokenAddress][Escrow] >= o.amount )
       =>
          /\ last'.err = "ok"
          /\ bal' = AfterReturn(bal, o)
          /\ status'[id] = "Expired"
          /\ ~offers'[id].active
          /\ paused'

C37_ReclaimWhilePaused == [][C37_Step]_vars

\* an expired offer was reclaimed while the escrow was paused
C37_Witness ==
    /\ last.op = "reclaimExpired"
    /\ last.err = "ok"
    /\ paused
    /\ status[last.id] = "Expired"
    /\ bal[offers[last.id].tokenAddress][offers[last.id].seller] = InitialBalance


(***************************************************************************)
(* C38 as stated: an Active offer whose deadline has passed can be         *)
(* reclaimed, whatever the owner has done before.                          *)
(***************************************************************************)
C38_OriginalClaim ==
    \A offerId \in OfferIds :
      (offers[offerId].active /\ now > offers[offerId].expiresAt) =>
        reclaimExpired(Cur, offers[offerId].seller, offerId).ok

\* the contract as it is now, read at the first instant after the deadline
\* of the offer (or now, if that is later)
PastDeadline(offerId) ==
    [Cur EXCEPT !.now = IF now > offers[offerId].expiresAt
                        THEN now ELSE offers[offerId].expiresAt + 1]

(***************************************************************************)
(* C38: as long as the owner has taken nothing of the offer's token out    *)
(* with emergencyWithdraw, every Active offer can be reclaimed once the    *)
(* clock has passed its deadline, by any caller and paused or not: the     *)
(* call returns, the seller receives the amount, the offer is Expired.     *)
(* Where a reclaim of an expired Active offer fails, it fails for the      *)
(* balance of the escrow, and the owner has withdrawn from that token.     *)
(***************************************************************************)
C38_Reclaimable ==
    \A offerId \in OfferIds :
      LET o == offers[offerId] IN
      o.active =>
        \A caller \in Accounts :
          LET r == reclaimExpired(PastDeadline(offerId), caller, offerId) IN
          /\ withdrawn[o.tokenAddress] = 0 =>
                /\ r.ok
                /\ r.st.bal = AfterReturn(bal, o)
                /\ r.st.status[offerId] = "Expired"
                /\ ~r.st.offers[offerId].active
          /\ ~r.ok =>
                /\ r.err = "ERC20InsufficientBalance"
                /\ withdrawn[o.tokenAddress] > 0
                /\ bal[o.tokenAddress][Escrow] < o.amount

(***************************************************************************)
(* C38, the owner's other calls: pause, unpause and updateExpiryTime touch *)
(* no offer, no status and no balance, whether they return or not.         *)
(***************************************************************************)
C38_Step ==
    (last'.op \in {"pause", "unpause", "updateExpiryTime"} /\ last' # last) =>
      /\ offers' = offers
      /\ status' = status
      /\ LedgerUnchanged
      /\ withdrawn' = withdrawn

C38_NoFundsStuck == []C38_Reclaimable /\ [][C38_Step]_vars

\* reclaimed by somebody else than the seller, the escrow paused, nothing
\* ever withdrawn by the owner
C38_Witness ==
    /\ last.op = "reclaimExpired"
    /\ last.err = "ok"
    /\ last.sender = Owner
    /\ paused
    /\ \A t \in Tokens : withdrawn[t] = 0
    /\ status[last.id] = "Expired"
    /\ paidOut[last.id] = 1


(***************************************************************************)
(* Deposits with every relation between the minimum and the desired        *)
(* amounts: a minimum of 0, one met by the optimal amount, one between     *)
(* the optimal and the desired amount, and one above the desired amount.   *)
(***************************************************************************)
MinimumChoices ==    \* amountADesired, amountBDesired, amountAMin, amountBMin
    { << 1400, 1400, 0, 0 >>, << 1400, 1400, 1500, 0 >>,
      << 200, 100, 100, 100 >>, << 200, 100, 150, 0 >>, << 100, 200, 0, 150 >>,
      << 100, 200, 150, 0 >>, << 200, 100, 0, 150 >> }

MinimumsNext ==
    \/ \E sender \in RouterUsers, p \in PairArgs, d \in MinimumChoices :
         AddLiquidity(sender, p[1], p[2], d[1], d[2], d[3], d[4], StartTime)
    \/ \E sender \in DirectUsers, token \in Tokens, amount \in TransferAmounts :
         TransferToPair(sender, token, amount)
    \/ Discard

SpecMinimums == PoolInit /\ [][MinimumsNext]_vars

(***************************************************************************)
(* C39 as stated: the amounts taken by a successful deposit are at least   *)
(* the minimums and at most the desired amounts.                           *)
(***************************************************************************)
C39_OriginalStep ==
    (last'.op = "addLiquidity" /\ last' # last /\ last'.err = "ok") =>
      /\ last'.args[5] <= ret'[1]
      /\ last'.args[6] <= ret'[2]
      /\ ret'[1] <= last'.args[3]
      /\ ret'[2] <= last'.args[4]

C39_OriginalClaim == [][C39_OriginalStep]_vars

(***************************************************************************)
(* C39: a successful deposit takes at most the desired amount of each      *)
(* token and exactly what it returns; an amount taken that is below its    *)
(* desired amount is at least its minimum, so both minimums are met        *)
(* whenever neither exceeds its desired amount.  A minimum above the       *)
(* desired amount of the token taken in full is not tested.  A deposit     *)
(* that fails changes nothing, and it fails for a minimum only when the    *)
(* optimal amount of that token is below it.                               *)
(***************************************************************************)
C39_Step ==
    (last'.op = "addLiquidity" /\ last' # last) =>
      LET sender         == last'.sender
          tokenA         == last'.args[1]
          tokenB         == last'.args[2]
          amountADesired == last'.args[3]
          amountBDesired == last'.args[4]
          amountAMin     == last'.args[5]
          amountBMin     == last'.args[6]
          reserveA       == IF tokenA = token0 THEN reserve0 ELSE reserve1
          reserveB       == IF tokenA = token0 THEN reserve1 ELSE reserve0
      IN
      /\ last'.err = "ok" =>
           /\ ret'[1] <= amountADesired
           /\ ret'[2] <= amountBDesired
           /\ ret'[1] < amountADesired => ret'[1] >= amountAMin
           /\ ret'[2] < amountBDesired => ret'[2] >= amountBMin
           /\ (amountAMin <= amountADesired /\ amountBMin <= amountBDesired) =>
                (amountAMin <= ret'[1] /\ amountBMin <= ret'[2])
           /\ totalSupply = 0 => (ret'[1] = amountADesired /\ ret'[2] = amountBDesired)
           /\ tokenBalance'[tokenA][sender] = tokenBalance[tokenA][sender] - ret'[1]
           /\ tokenBalance'[tokenB][sender] = tokenBalance[tokenB][sender] - ret'[2]
      /\ last'.err # "ok" => PoolCur' = PoolCur
      /\ last'.err = "MockRouter: INSUFFICIENT_A_AMOUNT" =>
           /\ reserveB > 0
           /\ (amountBDesired * reserveA) \div reserveB < amountAMin
      /\ last'.err = "MockRouter: INSUFFICIENT_B_AMOUNT" =>
           /\ reserveA > 0
           /\ (amountADesired * reserveB) \div reserveA < amountBMin

C39_MinimumsRespected == [][C39_Step]_vars

\* 200 and 100 offered to reserves of 1400 and 1400 with a minimum of 150 of
\* the first token: 100 would be taken, the deposit was refused
C39_Witness ==
    /\ last.op = "addLiquidity"
    /\ last.err = "MockRouter: INSUFFICIENT_A_AMOUNT"
    /\ last.args[3] = 200
    /\ last.args[5] = 150
    /\ reserve0 = 1400
    /\ reserve1 = 1400
    /\ tokenBalance["SWAT"][Pair] = 1400


\* what the liquidity tokens of holder h are worth in the token held as
\* reserve, in the pool state s
WorthOf(s, h, reserve) ==
    IF s.totalSupply = 0 THEN 0 ELSE (s.balanceOf[h] * reserve) \div s.totalSupply

(***************************************************************************)
(* C40: a deposit or a withdrawal, through the router or at the pair, by   *)
(* one account does not reduce what the liquidity tokens of any other      *)
(* holder are worth in either token: floor(balanceOf[h] * reserve /        *)
(* totalSupply) after the call is at least its value before, and the call  *)
(* leaves the other holders' liquidity tokens alone.                       *)
(***************************************************************************)
C40_Step ==
    ( /\ last'.op \in { "addLiquidity", "removeLiquidity", "mint", "burn" }
      /\ last' # last ) =>
      \A h \in (Providers \cup {Locked}) \ {last'.sender} :
        /\ totalSupply > 0 => balanceOf'[h] = balanceOf[h]
        /\ WorthOf(PoolCur', h, reserve0') >= WorthOf(PoolCur, h, reserve0)
        /\ WorthOf(PoolCur', h, reserve1') >= WorthOf(PoolCur, h, reserve1)

C40_NoDilution == [][C40_Step]_vars

\* bob has deposited after alice, who holds 400 of 1500 liquidity tokens:
\* they were worth 400 of each token before and are worth 400 after
C40_Witness ==
    /\ last.op = "addLiquidity"
    /\ last.err = "ok"
    /\ last.sender = "bob"
    /\ balanceOf["alice"] = 400
    /\ totalSupply > 1400
    /\ WorthOf(PoolCur, "alice", reserve0) >= 400
    /\ WorthOf(PoolCur, "alice", reserve1) >= 400

====
